---- MODULE Spec2Model ----
(***************************************************************************)
(* Model of the Email Threat Intelligence scoring engine                   *)
(* (src/extension/services/analyzer-service.js and its collaborators).     *)
(*                                                                         *)
(* ScoreSpec drives calculateThreatScore as a pure function over every     *)
(* combination of analyzer outputs; Spec drives one analyzeEmail call,     *)
(* with its network requests answered in any order.                        *)
(***************************************************************************)
EXTENDS Integers, Sequences, FiniteSets, TLC

VARIABLES
    analysis,           \* the argument handed to calculateThreatScore
    threat,             \* the value calculateThreatScore returned
    emailFacts,         \* the emailData argument handed to analyzeEmail
    net,                \* how the network has dealt with each request of this analysis
    pc,                 \* where analyzeEmail is: "idle", "awaiting", "returned"
    senderStep,         \* the await analyzeSender is suspended at
    senderLocals,       \* the local variables spf and dmarc of analyzeSender
    urlRuns,            \* one analyzeUrl call per URL of urls.slice(0, 10)
    senderAnalysis,     \* what each analyzer promise has settled to
    urlAnalysis,
    contentAnalysis,
    attachmentAnalysis,
    verdict,            \* the value analyzeEmail returned to its caller
    gmail,              \* the Gmail content script: its variables, timers and pending calls
    storage,            \* chrome.storage.local: the history list and the cache object
    now,                \* Date.now(), in milliseconds
    calls               \* the CacheManager and MessageHandler calls that have not returned

runVars == <<emailFacts, net, pc, senderStep, senderLocals, urlRuns, senderAnalysis,
             urlAnalysis, contentAnalysis, attachmentAnalysis, verdict>>
\* the state outside the analyzer: content script, storage, clock, background calls
shellVars == <<gmail, storage, now, calls>>

vars == <<analysis, threat, emailFacts, net, pc, senderStep, senderLocals, urlRuns,
          senderAnalysis, urlAnalysis, contentAnalysis, attachmentAnalysis, verdict,
         gmail, storage, now, calls>>

----------------------------------------------------------------------------
(* Bounds of the model *)

\* largest dangerousCount an analyzer output carries in ScoreSpec
MaxDangerous == 1
\* the longest list of attachments analyzeAttachments is called on
MaxAttachments == 2

\* how many URLs the longest URL list of Spec carries beyond the cap of ten
ExtraUrls == 1

----------------------------------------------------------------------------
(* Small helpers *)

Max(a, b) == IF a >= b THEN a ELSE b
Min(a, b) == IF a <= b THEN a ELSE b

\* a rounding that would use Math.floor in place of Math.round
RoundTenthsFloor(n) == n \div 10

\* Math.round of n/10 for n >= 0: nearest integer, ties upwards
RoundTenths(n) == (n + 5) \div 10

----------------------------------------------------------------------------
(* Strings.  A JavaScript string is a TLA+ string; Null stands for null and   *)
(* for undefined, and no string of the model equals it.                       *)

Null == "<null>"

\* the character "^" stands for a letter outside ASCII (a homoglyph)
NonAsciiChar == "^"

CharAt(s, i) == SubSeq(s, i, i)

\* s.substring(i - 1): the suffix of s that starts at position i (1-based)
SuffixFrom(s, i) == SubSeq(s, i, Len(s))

\* s.startsWith(w, i - 1): w occurs in s at position i (1-based)
OccursAt(s, i, w) == i + Len(w) - 1 <= Len(s) /\ SubSeq(s, i, i + Len(w) - 1) = w

\* s.includes(w)
Contains(s, w) ==
    \E i \in 1..(Len(s) - Len(w) + 1) : SubSeq(s, i, i + Len(w) - 1) = w

ContainsAny(s, ws) == \E w \in ws : Contains(s, w)

StartsWith(s, w) == Len(w) <= Len(s) /\ SubSeq(s, 1, Len(w)) = w

EndsWith(s, w) == Len(w) <= Len(s) /\ SuffixFrom(s, Len(s) - Len(w) + 1) = w

\* s.indexOf(w) + 1, and 0 when w does not occur in s
IndexOf(s, w) ==
    IF Contains(s, w)
      THEN CHOOSE i \in 1..(Len(s) - Len(w) + 1) :
             /\ SubSeq(s, i, i + Len(w) - 1) = w
             /\ \A j \in 1..(i - 1) : SubSeq(s, j, j + Len(w) - 1) # w
      ELSE 0

\* s.lastIndexOf(w) + 1, and 0 when w does not occur in s
LastIndexOf(s, w) ==
    IF Contains(s, w)
      THEN CHOOSE i \in 1..(Len(s) - Len(w) + 1) :
             /\ SubSeq(s, i, i + Len(w) - 1) = w
             /\ \A j \in (i + 1)..(Len(s) - Len(w) + 1) : SubSeq(s, j, j + Len(w) - 1) # w
      ELSE 0

\* the number of occurrences of the character c in s
CountChar(s, c) == Cardinality({i \in 1..Len(s) : CharAt(s, i) = c})

UpperCase == <<"A", "B", "C", "D", "E", "F", "G", "H", "I", "J", "K", "L", "M",
               "N", "O", "P", "Q", "R", "S", "T", "U", "V", "W", "X", "Y", "Z">>
LowerCase == <<"a", "b", "c", "d", "e", "f", "g", "h", "i", "j", "k", "l", "m",
               "n", "o", "p", "q", "r", "s", "t", "u", "v", "w", "x", "y", "z">>
Digits == {"0", "1", "2", "3", "4", "5", "6", "7", "8", "9"}

IsLetter(c) == \E k \in 1..26 : c = UpperCase[k] \/ c = LowerCase[k]
IsDigit(c) == c \in Digits

\* the lower-case letter of every upper-case letter
LowerOf ==
    [c \in {UpperCase[k] : k \in 1..26} |-> LowerCase[CHOOSE k \in 1..26 : UpperCase[k] = c]]

lowerChar(c) == IF c \in DOMAIN LowerOf THEN LowerOf[c] ELSE c

RECURSIVE toLowerCase(_)
\* String.prototype.toLowerCase
toLowerCase(s) ==
    IF Len(s) = 0 THEN ""
    ELSE IF Len(s) = 1 THEN lowerChar(s)
    ELSE toLowerCase(SubSeq(s, 1, Len(s) \div 2)) \o toLowerCase(SuffixFrom(s, Len(s) \div 2 + 1))

\* s.split(c).length
SplitLength(s, c) == CountChar(s, c) + 1

\* positions j such that s[i..j-1] matches \d{1,3}
DigitRunEnds(s, i) ==
    {j \in (i + 1)..Min(i + 3, Len(s) + 1) : \A k \in i..(j - 1) : IsDigit(CharAt(s, k))}

\* positions j such that s[i..j-1] matches \d{1,3}\.
DigitsDotEnds(s, i) ==
    {j + 1 : j \in {e \in DigitRunEnds(s, i) : e <= Len(s) /\ CharAt(s, e) = "."}}

\* /(\d{1,3}\.){3}\d{1,3}/.test(s)
MatchesIPv4(s) ==
    \E i \in 1..Len(s) :
      \E a \in DigitsDotEnds(s, i) :
        \E b \in DigitsDotEnds(s, a) :
          \E c \in DigitsDotEnds(s, b) : DigitRunEnds(s, c) # {}

\* /[a-zA-Z]{n,}/.test(s)
HasLetterRun(s, n) ==
    \E i \in 1..(Len(s) - n + 1) : \A k \in i..(i + n - 1) : IsLetter(CharAt(s, k))

RECURSIVE lettersOnly(_)
\* s.replace(/[^a-zA-Z]/g, '')
lettersOnly(s) ==
    IF Len(s) = 0 THEN ""
    ELSE IF Len(s) = 1 THEN (IF IsLetter(s) THEN s ELSE "")
    ELSE lettersOnly(SubSeq(s, 1, Len(s) \div 2)) \o lettersOnly(SuffixFrom(s, Len(s) \div 2 + 1))

----------------------------------------------------------------------------
(* Helpers.extractDomain *)

\* email.match(/@(.+)$/): the text after the first "@", when there is any
extractDomain(email) ==
    IF email = Null \/ email = "" THEN Null
    ELSE LET at == IndexOf(email, "@")
         IN  IF at = 0 \/ at = Len(email) THEN Null
             ELSE toLowerCase(SuffixFrom(email, at + 1))

----------------------------------------------------------------------------
(* DNSService (DNS-over-HTTPS).  A response of the resolver is a record       *)
(* [kind, answer]: kind "ok" carries the Answer array of the JSON body,       *)
(* "httpError" is a non-2xx status, "networkError" a rejected fetch, and      *)
(* "never" a request that is never answered.                                  *)

\* DNSService.resolve, once the fetch has settled: data.Answer || [], [] on any failure
resolve(response) == IF response.kind = "ok" THEN response.answer ELSE <<>>

\* records.find(r => r.data && r.data.includes(tag)): its index, 0 when none
FindRecord(records, tag) ==
    IF \E k \in 1..Len(records) : Contains(records[k].data, tag)
      THEN CHOOSE k \in 1..Len(records) :
             /\ Contains(records[k].data, tag)
             /\ \A j \in 1..(k - 1) : ~Contains(records[j].data, tag)
      ELSE 0

\* an SPF check that would let a domain without a usable record pass
checkSPFOpen(records) ==
    LET k == FindRecord(records, "v=spf1")
    IN  IF k = 0 THEN "pass"
        ELSE IF Contains(records[k].data, "~all") \/ Contains(records[k].data, "-all")
          THEN "pass"
        ELSE "neutral"

\* DNSService.checkSPF, applied to what resolve(domain, 'TXT') returned
checkSPF(records) ==
    LET k == FindRecord(records, "v=spf1")
    IN  IF k = 0 THEN "fail"
        ELSE IF Contains(records[k].data, "~all") \/ Contains(records[k].data, "-all")
          THEN "pass"
        ELSE "neutral"

\* dmarcData.match(/p=([^;]+)/): the captured policy, Null when nothing matches
dmarcPolicyMatch(data) ==
    LET starts == {i \in 1..(Len(data) - 2) :
                     /\ SubSeq(data, i, i + 1) = "p="
                     /\ CharAt(data, i + 2) # ";"}
    IN  IF starts = {} THEN Null
        ELSE LET i == CHOOSE x \in starts : \A y \in starts : x <= y
                 rest == SuffixFrom(data, i + 2)
                 semi == IndexOf(rest, ";")
             IN  IF semi = 0 THEN rest ELSE SubSeq(rest, 1, semi - 1)

\* DNSService.checkDMARC, applied to what resolve('_dmarc.' + domain, 'TXT') returned
checkDMARC(records) ==
    LET k == FindRecord(records, "v=DMARC1")
    IN  IF k = 0 THEN "fail"
        ELSE LET m == dmarcPolicyMatch(records[k].data)
                 policy == IF m = Null THEN "none" ELSE m
             IN  IF policy = "reject" \/ policy = "quarantine" THEN "pass" ELSE "neutral"

RECURSIVE insertByPriority(_, _)
\* insert mx into a list sorted by ascending priority, after its equals (a stable sort)
insertByPriority(sorted, mx) ==
    IF Len(sorted) = 0 THEN <<mx>>
    ELSE IF Head(sorted).priority <= mx.priority
      THEN <<Head(sorted)>> \o insertByPriority(Tail(sorted), mx)
    ELSE <<mx>> \o sorted

RECURSIVE sortByPriority(_)
sortByPriority(list) ==
    IF Len(list) = 0 THEN <<>>
    ELSE insertByPriority(sortByPriority(SubSeq(list, 1, Len(list) - 1)), list[Len(list)])

\* DNSService.getMXRecords, applied to what resolve(domain, 'MX') returned
getMXRecords(records) ==
    sortByPriority([k \in 1..Len(records) |->
                      [exchange |-> records[k].data, priority |-> records[k].priority]])

----------------------------------------------------------------------------
(* ThreatIntelService: domain heuristics *)

SuspiciousTLDs == <<".tk", ".ml", ".ga", ".cf", ".gq", ".top", ".xyz", ".club",
                    ".work", ".info", ".click", ".country">>

HasSuspiciousTLD(host) == \E k \in 1..Len(SuspiciousTLDs) : EndsWith(host, SuspiciousTLDs[k])

SuspiciousNamePatterns == {"-secure", "-login", "-verify", "-account", "update-", "support-"}

\* reasons.filter(Boolean) over the four checks, in their order
checkDomainReasons(isSuspicious, isShort, tooManySubdomains, hasSuspiciousName) ==
       (IF isSuspicious THEN <<"Suspicious TLD">> ELSE <<>>)
    \o (IF isShort THEN <<"Very short domain">> ELSE <<>>)
    \o (IF tooManySubdomains THEN <<"Too many subdomains">> ELSE <<>>)
    \o (IF hasSuspiciousName
          THEN <<"Suspicious domain naming (e.g. login/secure)">> ELSE <<>>)

\* ThreatIntelService.checkDomain
checkDomain(domain) ==
    IF domain = Null THEN [suspicious |-> FALSE, reasons |-> <<>>]
    ELSE LET isSuspicious == HasSuspiciousTLD(domain)
             isShort == Len(domain) < 5
             tooManySubdomains == SplitLength(domain, ".") > 4
             hasSuspiciousName == ContainsAny(toLowerCase(domain), SuspiciousNamePatterns)
         IN  [suspicious |-> isSuspicious \/ isShort \/ tooManySubdomains \/ hasSuspiciousName,
              reasons |-> checkDomainReasons(isSuspicious, isShort, tooManySubdomains,
                                             hasSuspiciousName)]

MajorProviders == {"gmail.com", "googlemail.com", "outlook.com", "hotmail.com",
                   "live.com", "yahoo.com", "icloud.com"}

TldCountry ==
    [us |-> "United States", uk |-> "United Kingdom", de |-> "Germany", fr |-> "France",
     es |-> "Spain", it |-> "Italy", nl |-> "Netherlands", be |-> "Belgium",
     se |-> "Sweden", no |-> "Norway", dk |-> "Denmark", fi |-> "Finland",
     pl |-> "Poland", ru |-> "Russia", br |-> "Brazil", ca |-> "Canada",
     au |-> "Australia", nz |-> "New Zealand", in |-> "India", jp |-> "Japan",
     cn |-> "China", kr |-> "South Korea", mx |-> "Mexico", ch |-> "Switzerland",
     at |-> "Austria", ie |-> "Ireland", pt |-> "Portugal", tr |-> "Turkiye",
     za |-> "South Africa", sg |-> "Singapore", hk |-> "Hong Kong", tw |-> "Taiwan",
     ai |-> "Anguilla (.ai hosting)",
     io |-> "British Indian Ocean Territory (.io hosting)",
     com |-> "Generic (US-based services often use .com)",
     net |-> "Generic (US-based services often use .net)",
     org |-> "Generic (US-based services often use .org)"]

\* parts[parts.length - 1] of domain.toLowerCase().split('.')
lastLabel(domain) ==
    LET d == toLowerCase(domain)
    IN  SuffixFrom(d, LastIndexOf(d, ".") + 1)

countryOf(domain) ==
    IF lastLabel(domain) \in DOMAIN TldCountry THEN TldCountry[lastLabel(domain)] ELSE "Unknown"

\* /\d{4}|temp|test|fake/i.test(domain)
isLikelyNewDomain(domain) ==
    \/ \E i \in 1..(Len(domain) - 3) : \A k \in i..(i + 3) : IsDigit(CharAt(domain, k))
    \/ ContainsAny(toLowerCase(domain), {"temp", "test", "fake"})

\* /(free|bonus|promo|deal|giveaway)/i.test(domain)
hasAggressiveBranding(domain) ==
    ContainsAny(toLowerCase(domain), {"free", "bonus", "promo", "deal", "giveaway"})

\* ThreatIntelService.getDomainInfo; domain.toLowerCase() throws on null, which the
\* method catches
getDomainInfo(domain) ==
    IF domain = Null THEN [age |-> "Unknown", suspicious |-> FALSE]
    ELSE IF toLowerCase(domain) \in MajorProviders
      THEN [age        |-> "Established provider (age not checked locally)",
            registrar  |-> "Major email provider (local analysis only)",
            country    |-> countryOf(domain),
            blacklisted |-> FALSE,
            suspicious |-> FALSE]
    ELSE [age        |-> IF isLikelyNewDomain(domain) THEN "Likely new domain"
                         ELSE "Not available (local analysis only)",
          registrar  |-> "Not available (local analysis only)",
          country    |-> countryOf(domain),
          blacklisted |-> FALSE,
          suspicious |-> isLikelyNewDomain(domain) \/ hasAggressiveBranding(domain)]

----------------------------------------------------------------------------
(* AnalyzerService.analyzeSender *)

\* AnalyzerService.calculateSenderReputation
calculateSenderReputation(spf, dmarc, domainInfo) ==
    LET score == (IF spf = "pass" THEN 33 ELSE 0)
               + (IF dmarc = "pass" THEN 33 ELSE 0)
               + (IF ~domainInfo.suspicious THEN 34 ELSE 0)
    IN  IF score >= 66 THEN "Good" ELSE IF score >= 33 THEN "Moderate" ELSE "Poor"

\* a metadata field read as a condition: an absent field is undefined, hence falsy
Truthy(m, f) == f \in DOMAIN m /\ m[f] = TRUE

senderRisksOf(metadata) ==
       (IF ~Truthy(metadata, "senderNamePresent") THEN <<"No sender display name">> ELSE <<>>)
    \o (IF Truthy(metadata, "senderNamePresent") /\ ~Truthy(metadata, "senderNameMatchesDomain")
          THEN <<"Sender name does not match domain">> ELSE <<>>)
    \o (IF Truthy(metadata, "isBcc") THEN <<"Email was BCC'd (unusual)">> ELSE <<>>)

\* the value analyzeSender returns once its three lookups have been answered
senderResult(emailData, spf, dmarc, mxRecords) ==
    LET domain == extractDomain(emailData.sender)
        domainInfo == getDomainInfo(domain)
    IN  [email      |-> emailData.sender,
         domain     |-> domain,
         spf        |-> spf,
         dkim       |-> "not_checked",
         dmarc      |-> dmarc,
         mxRecords  |-> mxRecords,
         domainInfo |-> domainInfo,
         reputation |-> calculateSenderReputation(spf, dmarc, domainInfo),
         senderRisks |-> senderRisksOf(emailData.metadata)]

----------------------------------------------------------------------------
(* new URL(url).  The URL strings of the model use the schemes http and https  *)
(* or none at all, and hold no character the parser would re-encode.           *)

\* the first position of "/", "?" or "#" in s, and Len(s) + 1 when there is none
AuthorityEnd(s) ==
    LET stops == {i \in 1..Len(s) : CharAt(s, i) \in {"/", "?", "#"}}
    IN  IF stops = {} THEN Len(s) + 1 ELSE CHOOSE i \in stops : \A j \in stops : i <= j

RECURSIVE removeChar(_, _)
removeChar(s, c) ==
    IF Len(s) = 0 THEN ""
    ELSE IF Len(s) = 1 THEN (IF s = c THEN "" ELSE s)
    ELSE removeChar(SubSeq(s, 1, Len(s) \div 2), c)
           \o removeChar(SuffixFrom(s, Len(s) \div 2 + 1), c)

\* a label with a non-ASCII letter is replaced by its punycode form; the encoded
\* tail is abstracted to "-x"
toAsciiLabel(label) ==
    IF Contains(label, NonAsciiChar)
      THEN "xn--" \o removeChar(label, NonAsciiChar) \o "-x"
      ELSE label

RECURSIVE domainToASCII(_)
\* the host parser's domain-to-ASCII step, label by label
domainToASCII(host) ==
    LET dot == IndexOf(host, ".")
    IN  IF dot = 0 THEN toAsciiLabel(host)
        ELSE toAsciiLabel(SubSeq(host, 1, dot - 1)) \o "." \o domainToASCII(SuffixFrom(host, dot + 1))

\* the host of an authority: after the last "@", without a ":port" suffix
hostOfAuthority(authority) ==
    LET afterUser == SuffixFrom(authority, LastIndexOf(authority, "@") + 1)
        colon == IndexOf(afterUser, ":")
    IN  IF colon = 0 THEN afterUser ELSE SubSeq(afterUser, 1, colon - 1)

\* new URL(url): [ok |-> FALSE] when the constructor throws
parseUrl(url) ==
    LET lower == toLowerCase(url)
        protocol == IF StartsWith(lower, "https://") THEN "https:"
                    ELSE IF StartsWith(lower, "http://") THEN "http:"
                    ELSE Null
    IN  IF url = Null \/ protocol = Null THEN [ok |-> FALSE]
        ELSE LET rest == SuffixFrom(url, Len(protocol) + 3)
                 aEnd == AuthorityEnd(rest)
                 host == toLowerCase(hostOfAuthority(SubSeq(rest, 1, aEnd - 1)))
                 tail == SuffixFrom(rest, aEnd)
                 hash == IndexOf(tail, "#")
                 noHash == IF hash = 0 THEN tail ELSE SubSeq(tail, 1, hash - 1)
                 q == IndexOf(noHash, "?")
                 path == IF q = 0 THEN noHash ELSE SubSeq(noHash, 1, q - 1)
                 query == IF q = 0 THEN "" ELSE SuffixFrom(noHash, q)
             IN  IF host = "" \/ Contains(host, " ") THEN [ok |-> FALSE]
                 ELSE [ok       |-> TRUE,
                       protocol |-> protocol,
                       hostname |-> domainToASCII(host),
                       pathname |-> IF path = "" THEN "/" ELSE path,
                       search   |-> IF query = "?" THEN "" ELSE query]

----------------------------------------------------------------------------
(* URL checks *)

\* CONSTANTS.PATTERNS.SHORT_URL: /bit\.ly|tinyurl|goo\.gl|ow\.ly|t\.co|short\.link/i
ShortUrlPatterns == {"bit.ly", "tinyurl", "goo.gl", "ow.ly", "t.co", "short.link"}

isShortUrl(url) == ContainsAny(toLowerCase(url), ShortUrlPatterns)

\* /goo\.gl\/[^\/]{6,}/i.test(url)
matchesGooGlPath(lower) ==
    \E i \in 1..(Len(lower) - 12) :
        /\ SubSeq(lower, i, i + 6) = "goo.gl/"
        /\ \A k \in (i + 7)..(i + 12) : CharAt(lower, k) # "/"

\* ThreatIntelService.checkURL: the static dangerous patterns, tested on the URL string
checkURL(url) ==
    LET lower == toLowerCase(url)
        hit == \/ ContainsAny(lower, ShortUrlPatterns)
               \/ Contains(lower, "bit.do")
               \/ Contains(lower, "tny.im")
               \/ matchesGooGlPath(lower)
               \/ MatchesIPv4(url)
               \/ HasSuspiciousTLD(lower)
    IN  IF hit THEN [safe |-> FALSE, reason |-> "Suspicious URL pattern detected"]
        ELSE [safe |-> TRUE]

\* a homoglyph test that would look at the text of the URL instead of the parsed host
checkHomoglyphsInText(url) ==
    [detected |-> parseUrl(url).ok /\ Contains(url, NonAsciiChar)]

\* AnalyzerService.checkHomoglyphs: a non-ASCII character in the parsed hostname
checkHomoglyphs(url) ==
    LET u == parseUrl(url)
    IN  [detected |-> u.ok /\ Contains(u.hostname, NonAsciiChar)]

UrlKeywords == <<"login", "verify", "account", "secure", "banking", "paypal",
                 "reset-password", "password-reset", "update-account", "secure-login",
                 "giftcard", "crypto", "bitcoin", "wallet", "invoice",
                 "payment-confirmation">>

RECURSIVE joinComma(_)
\* list.join(', ')
joinComma(list) ==
    IF Len(list) = 0 THEN ""
    ELSE IF Len(list) = 1 THEN list[1]
    ELSE list[1] \o ", " \o joinComma(Tail(list))

LongPathOver == 80
LongLettersOver == 40
LongLetterRun == 30

\* the reasons of checkUrlStructure, in the order the code pushes them; u is the
\* parsed URL and combined the lower-cased hostname + pathname + search
urlStructureReasons(url, u, combined) ==
    LET isKeywordFound(k) == Contains(combined, k)
        foundKeywords == SelectSeq(UrlKeywords, isKeywordFound)
        pathAndQuery == u.pathname \o u.search
    IN     (IF MatchesIPv4(u.hostname) THEN <<"URL uses IP address">> ELSE <<>>)
        \o (IF HasSuspiciousTLD(u.hostname) THEN <<"Suspicious TLD">> ELSE <<>>)
        \o (IF StartsWith(u.hostname, "xn--") \/ Contains(u.hostname, ".xn--")
              THEN <<"Punycode domain (possible homograph attack)">> ELSE <<>>)
        \o (IF SplitLength(u.hostname, ".") > 4
              THEN <<"Too many subdomains">> ELSE <<>>)
        \o (IF Len(foundKeywords) > 0
              THEN <<"Suspicious keywords: " \o joinComma(foundKeywords)>>
              ELSE <<>>)
        \o (IF Contains(url, "@") THEN <<"URL contains @ symbol">> ELSE <<>>)
        \o (IF u.protocol = "http:" THEN <<"Not using HTTPS">> ELSE <<>>)
        \o (IF /\ Len(pathAndQuery) > LongPathOver
               /\ Len(lettersOnly(pathAndQuery)) > LongLettersOver
               /\ HasLetterRun(lettersOnly(pathAndQuery), LongLetterRun)
              THEN <<"Very long randomized URL path">> ELSE <<>>)

\* the value checkUrlStructure returns for its list of reasons
urlStructureResult(reasons) == [suspicious |-> Len(reasons) > 0, reasons |-> reasons]

\* checkUrlStructure after `new URL(url)`; its catch branch when that threw
urlStructureOf(url, u) ==
    IF ~u.ok THEN [suspicious |-> FALSE, reasons |-> <<>>]
    ELSE urlStructureResult(
           urlStructureReasons(url, u, toLowerCase(u.hostname \o u.pathname \o u.search)))

\* AnalyzerService.checkUrlStructure
checkUrlStructure(url) == urlStructureOf(url, parseUrl(url))

----------------------------------------------------------------------------
(* AnalyzerService.analyzeUrl *)

\* the catch branch of analyzeUrl
unableToAnalyze(url) ==
    [url |-> url, dangerous |-> FALSE, riskScore |-> 0, flags |-> <<"Unable to analyze">>]

HomoglyphPoints == 40
StructurePoints == 30
PatternPoints == 50
DomainPoints == 20
DangerousUrlFrom == 50

\* the response of the HEAD request of expandURL is [kind, url]; "networkError" is a
\* rejected fetch and "never" a request that is never answered
\* ThreatIntelService.expandURL, once the fetch has settled: response.url || shortUrl
expandURL(shortUrl, response) ==
    IF response.kind = "ok" /\ response.url # "" THEN response.url ELSE shortUrl

\* a result whose dangerous flag would need more than 50 points
urlResultOfAbove50(url, finalUrl, homoglyph, structure, threatCheck, domainCheck) ==
    LET riskScore == (IF homoglyph.detected THEN HomoglyphPoints ELSE 0)
                   + (IF structure.suspicious THEN StructurePoints ELSE 0)
                   + (IF ~threatCheck.safe THEN PatternPoints ELSE 0)
                   + (IF domainCheck.suspicious THEN DomainPoints ELSE 0)
    IN  [url         |-> url,
         resolvedUrl |-> finalUrl,
         dangerous   |-> riskScore > DangerousUrlFrom,
         riskScore   |-> riskScore,
         flags       |-> (IF homoglyph.detected THEN <<"Homoglyph attack detected">> ELSE <<>>)
                      \o (IF structure.suspicious THEN structure.reasons ELSE <<>>)
                      \o (IF ~threatCheck.safe THEN <<threatCheck.reason>> ELSE <<>>)
                      \o (IF domainCheck.suspicious THEN domainCheck.reasons ELSE <<>>),
         redirects   |-> IF finalUrl # url THEN url \o " -> " \o finalUrl ELSE Null]

\* the value analyzeUrl returns for the four checks of the resolved URL
urlResultOf(url, finalUrl, homoglyph, structure, threatCheck, domainCheck) ==
    LET riskScore == (IF homoglyph.detected THEN HomoglyphPoints ELSE 0)
                   + (IF structure.suspicious THEN StructurePoints ELSE 0)
                   + (IF ~threatCheck.safe THEN PatternPoints ELSE 0)
                   + (IF domainCheck.suspicious THEN DomainPoints ELSE 0)
    IN  [url         |-> url,
         resolvedUrl |-> finalUrl,
         dangerous   |-> riskScore >= DangerousUrlFrom,
         riskScore   |-> riskScore,
         flags       |-> (IF homoglyph.detected THEN <<"Homoglyph attack detected">> ELSE <<>>)
                      \o (IF structure.suspicious THEN structure.reasons ELSE <<>>)
                      \o (IF ~threatCheck.safe THEN <<threatCheck.reason>> ELSE <<>>)
                      \o (IF domainCheck.suspicious THEN domainCheck.reasons ELSE <<>>),
         redirects   |-> IF finalUrl # url THEN url \o " -> " \o finalUrl ELSE Null]

\* analyzeUrl from `new URL(finalUrl)` on, urlObj being the parsed finalUrl
analyzeFinalUrl(url, finalUrl, urlObj) ==
    IF ~urlObj.ok THEN unableToAnalyze(url)
    ELSE urlResultOf(url, finalUrl, checkHomoglyphs(finalUrl), checkUrlStructure(finalUrl),
                     checkURL(finalUrl), checkDomain(urlObj.hostname))

\* the finalUrl of analyzeUrl; expanded is what expandURL returned, or the URL itself
\* when no expansion was attempted
finalUrlOf(url, expanded) == IF expanded # "" /\ expanded # url THEN expanded ELSE url

\* analyzeUrl once expandURL has settled
analyzeResolvedUrl(url, expanded) ==
    analyzeFinalUrl(url, finalUrlOf(url, expanded), parseUrl(finalUrlOf(url, expanded)))

UrlCap == 10

\* a batch that would take every URL of the message
firstUrlsUncapped(urls) == urls

\* urls.slice(0, 10)
firstUrls(urls) == SubSeq(urls, 1, Min(Len(urls), UrlCap))

isDangerousResult(r) == r.dangerous

\* a batch that would give up as soon as one URL could not be analyzed
urlAnalysisAbortOnFailure(urlResults) ==
    IF \E k \in 1..Len(urlResults) : urlResults[k].flags = <<"Unable to analyze">>
      THEN [urls |-> <<>>, dangerousUrls |-> <<>>, dangerousCount |-> 0]
      ELSE LET dangerous == SelectSeq(urlResults, isDangerousResult)
           IN  [urls          |-> urlResults,
                dangerousUrls |-> [k \in 1..Len(dangerous) |-> dangerous[k].url],
                dangerousCount |-> Len(dangerous)]

\* the value analyzeUrls returns once every analyzeUrl promise has resolved
urlAnalysisOf(urlResults) ==
    LET dangerous == SelectSeq(urlResults, isDangerousResult)
    IN  [urls          |-> urlResults,
         dangerousUrls |-> [k \in 1..Len(dangerous) |-> dangerous[k].url],
         dangerousCount |-> Len(dangerous)]

\* analyzeUrls on an empty list
emptyUrlAnalysis == [urls |-> <<>>, dangerousUrls |-> <<>>, dangerousCount |-> 0]

----------------------------------------------------------------------------
(* AnalyzerService.analyzeContent *)

\* a metadata field compared with a number: an absent field is undefined, and every
\* comparison with undefined is false
FieldLess(m, f, n) == f \in DOMAIN m /\ m[f] < n
FieldGreater(m, f, n) == f \in DOMAIN m /\ m[f] > n
\* m[f] === false
FieldIsFalse(m, f) == f \in DOMAIN m /\ m[f] = FALSE

\* /(mailbox|storage).*(full|almost full|quota)/: "." matches no line break
matchesMailboxQuota(text) ==
    \E i \in 1..Len(text), w \in {"mailbox", "storage"} :
        /\ OccursAt(text, i, w)
        /\ \E j \in (i + Len(w))..Len(text), v \in {"full", "quota"} :
              /\ OccursAt(text, j, v)
              /\ \A k \in (i + Len(w))..(j - 1) : CharAt(text, k) # "\n"

\* the pattern table of analyzeContent, in its order; each regex but the last is an
\* alternation of literals
ContentPatterns ==
    << [words |-> {"urgent", "immediately", "act now", "limited time"},
        weight |-> 15, flag |-> "Urgency manipulation"],
       [words |-> {"verify your account", "confirm your identity"},
        weight |-> 20, flag |-> "Account verification phishing"],
       [words |-> {"suspended", "locked", "restricted", "terminated"},
        weight |-> 18, flag |-> "Fear-based manipulation"],
       [words |-> {"click here", "click below"},
        weight |-> 10, flag |-> "Action pressure"],
       [words |-> {"congratulations", "you've won", "prize", "lottery"},
        weight |-> 15, flag |-> "Prize scam"],
       [words |-> {"password", "credential", "authentication"},
        weight |-> 20, flag |-> "Credential harvesting"],
       [words |-> {"bank", "credit card", "payment", "billing"},
        weight |-> 15, flag |-> "Financial information request"],
       [words |-> {"dear customer", "dear user", "dear member"},
        weight |-> 10, flag |-> "Generic greeting"],
       [words |-> {"invoice", "payment due", "outstanding invoice", "outstanding balance",
                   "past due"},
        weight |-> 15, flag |-> "Invoice or payment pressure"],
       [words |-> {"bitcoin", "crypto", "usdt", "ethereum", "wallet"},
        weight |-> 20, flag |-> "Cryptocurrency-related request"],
       [words |-> {"gift card", "itunes card", "google play card", "steam card"},
        weight |-> 20, flag |-> "Gift card scam indicators"],
       [words |-> {"wire transfer", "swift", "iban", "routing number"},
        weight |-> 20, flag |-> "Wire transfer request"],
       [words |-> {"unusual sign-in", "unusual sign in", "unusual signin", "unusual login",
                   "suspicious sign-in", "suspicious sign in", "suspicious signin",
                   "suspicious login"},
        weight |-> 18, flag |-> "Unusual login security alert"],
       [words |-> {},
        weight |-> 15, flag |-> "Mailbox quota phishing"] >>

MailboxQuotaPattern == 14

\* pattern.regex.test(text)
patternMatches(k, text) ==
    IF k = MailboxQuotaPattern THEN matchesMailboxQuota(text)
    ELSE ContainsAny(text, ContentPatterns[k].words)

Brands == <<"paypal", "amazon", "apple", "microsoft", "google", "bank", "netflix",
            "facebook", "instagram", "whatsapp", "uber", "dhl", "fedex">>

\* brands.find(brand => text.includes(brand)): the first brand of the list that the
\* text mentions, Null (undefined) when it mentions none
findMentionedBrand(text) ==
    IF \E k \in 1..Len(Brands) : Contains(text, Brands[k])
      THEN Brands[CHOOSE k \in 1..Len(Brands) :
                    /\ Contains(text, Brands[k])
                    /\ \A j \in 1..(k - 1) : ~Contains(text, Brands[j])]
      ELSE Null

ImpersonationPoints == 30
MaxPhishingScore == 100
ShortBodyUnder == 80
ShortBodyFloor == 40
HighFrom == 40
ModerateFrom == 20

shortBodyWithLinksOf(metadata) ==
    FieldLess(metadata, "bodyLength", ShortBodyUnder) /\ FieldGreater(metadata, "urlCount", 0)

\* the metadata-derived additions of analyzeContent, as [weight, flag] in their order
metadataSignals(metadata) ==
       (IF Truthy(metadata, "hasAttachments") /\ FieldGreater(metadata, "attachmentCount", 3)
          THEN <<[weight |-> 5, flag |-> "Multiple attachments (unusual)"]>> ELSE <<>>)
    \o (IF FieldGreater(metadata, "urlCount", 5)
          THEN <<[weight |-> 10, flag |-> "Many embedded links (suspicious)"]>> ELSE <<>>)
    \o (IF FieldLess(metadata, "bodyLength", ShortBodyUnder)
           /\ FieldGreater(metadata, "urlCount", 0)
          THEN <<[weight |-> 15, flag |-> "Very short body with links (suspicious)"]>>
          ELSE <<>>)
    \o (IF /\ FieldIsFalse(metadata, "isReply")
           /\ FieldIsFalse(metadata, "isForward")
           /\ FieldGreater(metadata, "recipientCount", 10)
          THEN <<[weight |-> 5, flag |-> "Sent to many recipients"]>> ELSE <<>>)
    \o (IF FieldGreater(metadata, "hasImages", 5)
          THEN <<[weight |-> 5, flag |-> "Many images in email"]>> ELSE <<>>)

RECURSIVE sumWeights(_)
sumWeights(list) == IF Len(list) = 0 THEN 0 ELSE Head(list).weight + sumWeights(Tail(list))

flagsOf(list) == [k \in 1..Len(list) |-> list[k].flag]

\* tiers whose lower ends would be exclusive
socialEngineeringOfAbove(phishingScore) ==
    IF phishingScore > HighFrom THEN "High"
    ELSE IF phishingScore > ModerateFrom THEN "Moderate"
    ELSE "Low"

socialEngineeringOf(phishingScore) ==
    IF phishingScore >= HighFrom THEN "High"
    ELSE IF phishingScore >= ModerateFrom THEN "Moderate"
    ELSE "Low"

\* what an analyzer promise settles to: fulfilled with a value, or rejected
Fulfilled(v) == [status |-> "ok", value |-> v]
Rejected(msg) == [status |-> "threw", message |-> msg]

NullIncludesError == "Cannot read properties of null (reading 'includes')"

\* AnalyzerService.analyzeContent; senderDomain.includes throws a TypeError when a
\* brand is mentioned and the sender has no domain
analyzeContent(emailData) ==
    LET text == toLowerCase(emailData.subject \o " " \o emailData.body)
        metadata == emailData.metadata
        shortBodyWithLinks == shortBodyWithLinksOf(metadata)
        isHit(k) == patternMatches(k, text)
        hits == SelectSeq([k \in 1..Len(ContentPatterns) |-> k], isHit)
        matched == [k \in 1..Len(hits) |-> ContentPatterns[hits[k]]]
        mentionedBrand == findMentionedBrand(text)
        senderDomain == extractDomain(emailData.sender)
    IN  IF mentionedBrand # Null /\ senderDomain = Null THEN Rejected(NullIncludesError)
        ELSE LET impersonation == mentionedBrand # Null /\ ~Contains(senderDomain, mentionedBrand)
                 signals == metadataSignals(metadata)
                 running == sumWeights(matched)
                          + (IF impersonation THEN ImpersonationPoints ELSE 0)
                          + sumWeights(signals)
                 phishingScore == IF shortBodyWithLinks /\ running < ShortBodyFloor
                                    THEN ShortBodyFloor ELSE running
             IN  Fulfilled(
                   [phishingScore      |-> Min(MaxPhishingScore, phishingScore),
                    socialEngineering  |-> socialEngineeringOf(phishingScore),
                    impersonation      |-> impersonation,
                    shortBodyWithLinks |-> shortBodyWithLinks,
                    flags |-> flagsOf(matched)
                           \o (IF impersonation
                                 THEN <<"Impersonation: Mentions " \o mentionedBrand>>
                                 ELSE <<>>)
                           \o flagsOf(signals)])

----------------------------------------------------------------------------
(* AnalyzerService.analyzeAttachments *)

DangerousExts == {"exe", "bat", "cmd", "scr", "vbs", "js", "jar", "msi", "ps1", "psm1",
                  "com", "cpl", "reg", "hta", "lnk", "pif", "msc", "apk", "sh"}
SuspiciousExts == {"zip", "rar", "7z", "tar", "gz", "doc", "docx", "docm", "xls", "xlsx",
                   "xlsm", "ppt", "pptx", "pptm", "pdf", "iso", "img"}
MacroExts == {"docm", "xlsm", "pptm"}

\* a check that would give a double extension 40 points in place of 40 more points
checkAttachmentFlat(attachment) ==
    LET ext == toLowerCase(attachment.extension)
        isDangerousExt == ext \in DangerousExts
        isSuspiciousExt == ~isDangerousExt /\ ext \in SuspiciousExts
        isMacro == ext \in MacroExts
        isDouble == SplitLength(attachment.name, ".") > 2
        base == IF isDangerousExt THEN 90 ELSE IF isSuspiciousExt THEN 30 ELSE 0
        afterMacro == IF isMacro THEN Max(base, 80) ELSE base
    IN  [name      |-> attachment.name,
         extension |-> ext,
         dangerous |-> isDangerousExt \/ isMacro \/ isDouble,
         riskScore |-> IF isDouble THEN 40 ELSE afterMacro,
         flags |-> (IF isDangerousExt THEN <<"Dangerous file type: ." \o ext>> ELSE <<>>)
                \o (IF isSuspiciousExt THEN <<"Requires caution: ." \o ext>> ELSE <<>>)
                \o (IF isMacro THEN <<"Macro-enabled Office document">> ELSE <<>>)
                \o (IF isDouble THEN <<"Double extension detected">> ELSE <<>>)]

\* AnalyzerService.checkAttachment
checkAttachment(attachment) ==
    LET ext == toLowerCase(attachment.extension)
        isDangerousExt == ext \in DangerousExts
        isSuspiciousExt == ~isDangerousExt /\ ext \in SuspiciousExts
        isMacro == ext \in MacroExts
        isDouble == SplitLength(attachment.name, ".") > 2
        base == IF isDangerousExt THEN 90 ELSE IF isSuspiciousExt THEN 30 ELSE 0
        afterMacro == IF isMacro THEN Max(base, 80) ELSE base
    IN  [name      |-> attachment.name,
         extension |-> ext,
         dangerous |-> isDangerousExt \/ isMacro \/ isDouble,
         riskScore |-> afterMacro + (IF isDouble THEN 40 ELSE 0),
         flags |-> (IF isDangerousExt THEN <<"Dangerous file type: ." \o ext>> ELSE <<>>)
                \o (IF isSuspiciousExt THEN <<"Requires caution: ." \o ext>> ELSE <<>>)
                \o (IF isMacro THEN <<"Macro-enabled Office document">> ELSE <<>>)
                \o (IF isDouble THEN <<"Double extension detected">> ELSE <<>>)]

isDangerousAttachment(r) == r.dangerous

\* AnalyzerService.analyzeAttachments
analyzeAttachments(attachments) ==
    LET results == [k \in 1..Len(attachments) |-> checkAttachment(attachments[k])]
    IN  [attachments    |-> results,
         dangerousCount |-> Len(SelectSeq(results, isDangerousAttachment))]

----------------------------------------------------------------------------
(* calculateThreatScore *)

AuthStatuses == {"pass", "neutral", "fail", "error"}
Tiers == {"Low", "Moderate", "High"}
MaxScore == 100

\* weights of calculateThreatScore, in tenths
WeightSender == 2
WeightContent == 5
WeightUrl == 4
WeightAttachment == 4
WeightCombined == 2

\* a sender score that would count only the status 'fail'
senderScoreOfFailOnly(a) ==
    (IF a.senderAnalysis.spf = "fail" THEN 40 ELSE 0)
  + (IF a.senderAnalysis.dmarc = "fail" THEN 40 ELSE 0)
  + (IF "domainInfo" \in DOMAIN a.senderAnalysis
        /\ a.senderAnalysis.domainInfo.suspicious THEN 20 ELSE 0)

senderScoreOf(a) ==
    (IF a.senderAnalysis.spf # "pass" THEN 40 ELSE 0)
  + (IF a.senderAnalysis.dmarc # "pass" THEN 40 ELSE 0)
  + (IF "domainInfo" \in DOMAIN a.senderAnalysis
        /\ a.senderAnalysis.domainInfo.suspicious THEN 20 ELSE 0)

urlScoreOf(a) == IF a.urlAnalysis.dangerousCount > 0 THEN 80 ELSE 0

\* a variant scoring a dangerous attachment 75, which the 0.4 weight brings to 30
attachmentScoreOfBelowBand(a) == IF a.attachmentAnalysis.dangerousCount > 0 THEN 75 ELSE 0

attachmentScoreOf(a) == IF a.attachmentAnalysis.dangerousCount > 0 THEN 90 ELSE 0

combinedScoreOf(a) ==
    (IF a.contentAnalysis.impersonation /\ senderScoreOf(a) > 30 THEN 50 ELSE 0)
  + (IF a.urlAnalysis.dangerousCount > 0
       THEN 40 + (IF a.contentAnalysis.shortBodyWithLinks THEN 20 ELSE 0)
               + (IF a.metadata.isSpamFolder THEN 20 ELSE 0)
       ELSE 0)

weightedTotal(a) ==
    RoundTenths(senderScoreOf(a) * WeightSender
              + a.contentAnalysis.phishingScore * WeightContent
              + urlScoreOf(a) * WeightUrl
              + attachmentScoreOf(a) * WeightAttachment
              + combinedScoreOf(a) * WeightCombined)

FloorSocialHigh == 45
FloorSocialModerate == 30
FloorImpersonation == 60
FloorSpam == 40
FloorDangerousUrl == 75

\* floors whose impersonation floor would assign 60 instead of taking the maximum
applyFloorsAssign(a, total) ==
    LET t1 == IF a.contentAnalysis.socialEngineering = "High"
                THEN Max(total, FloorSocialHigh)
              ELSE IF a.contentAnalysis.socialEngineering = "Moderate"
                THEN Max(total, FloorSocialModerate)
              ELSE total
        t2 == IF a.contentAnalysis.impersonation THEN FloorImpersonation ELSE t1
        t3 == IF a.metadata.isSpamFolder THEN Max(t2, FloorSpam) ELSE t2
        t4 == IF a.urlAnalysis.dangerousCount > 0
                 /\ (a.contentAnalysis.shortBodyWithLinks \/ a.metadata.isSpamFolder)
                THEN Max(t3, FloorDangerousUrl) ELSE t3
    IN  t4

\* the override floors, applied in the order of the code
applyFloors(a, total) ==
    LET t1 == IF a.contentAnalysis.socialEngineering = "High"
                THEN Max(total, FloorSocialHigh)
              ELSE IF a.contentAnalysis.socialEngineering = "Moderate"
                THEN Max(total, FloorSocialModerate)
              ELSE total
        t2 == IF a.contentAnalysis.impersonation THEN Max(t1, FloorImpersonation) ELSE t1
        t3 == IF a.metadata.isSpamFolder THEN Max(t2, FloorSpam) ELSE t2
        t4 == IF a.urlAnalysis.dangerousCount > 0
                 /\ (a.contentAnalysis.shortBodyWithLinks \/ a.metadata.isSpamFolder)
                THEN Max(t3, FloorDangerousUrl) ELSE t3
    IN  t4

\* a clamp that would lack the upper bound
clampScoreNoUpper(t) == Max(0, t)

clampScore(t) == Min(MaxScore, Max(0, t))

ReasonLimit == 5

collectReasons(a) ==
    LET r1 == IF senderScoreOf(a) > 20 THEN <<"Sender authentication failed">> ELSE <<>>
        r2 == IF a.contentAnalysis.phishingScore > 30
                THEN <<"Phishing patterns detected">> ELSE <<>>
        r3 == IF urlScoreOf(a) > 0
                THEN <<ToString(a.urlAnalysis.dangerousCount) \o " dangerous URL(s)">>
                ELSE <<>>
        r4 == IF attachmentScoreOf(a) > 0
                THEN <<ToString(a.attachmentAnalysis.dangerousCount) \o " dangerous attachment(s)">>
                ELSE <<>>
        r5 == IF a.contentAnalysis.impersonation
                THEN <<"Impersonation attempt detected">> ELSE <<>>
        r6 == IF a.contentAnalysis.shortBodyWithLinks
                THEN <<"Short email body with embedded links">> ELSE <<>>
        r7 == IF a.metadata.isSpamFolder THEN <<"Email is in Spam folder">> ELSE <<>>
    IN  r1 \o r2 \o r3 \o r4 \o r5 \o r6 \o r7

\* a cut that would keep the last five reasons instead of the first five
sliceReasonsLast(rs) == SubSeq(rs, Max(1, Len(rs) - ReasonLimit + 1), Len(rs))

sliceReasons(rs) == SubSeq(rs, 1, Min(Len(rs), ReasonLimit))

DangerousFrom == 61
SuspiciousFrom == 31

levelOf(total) ==
    IF total >= DangerousFrom THEN "DANGEROUS"
    ELSE IF total >= SuspiciousFrom THEN "SUSPICIOUS"
    ELSE "SAFE"

\* bands whose second would begin one point early
ThreatLevelsFrom30 ==
    << [label |-> "SAFE", range |-> <<0, 29>>],
       [label |-> "SUSPICIOUS", range |-> <<30, 60>>],
       [label |-> "DANGEROUS", range |-> <<61, 100>>] >>

\* CONSTANTS.THREAT_LEVELS, in the order of Object.entries
THREAT_LEVELS ==
    << [label |-> "SAFE", range |-> <<0, 30>>],
       [label |-> "SUSPICIOUS", range |-> <<31, 60>>],
       [label |-> "DANGEROUS", range |-> <<61, 100>>] >>

\* Helpers.getThreatLevel: the first level whose range holds the score, SAFE when none
getThreatLevel(score) ==
    LET holding == {k \in 1..Len(THREAT_LEVELS) :
                      /\ score >= THREAT_LEVELS[k].range[1]
                      /\ score <= THREAT_LEVELS[k].range[2]}
    IN  IF holding = {} THEN THREAT_LEVELS[1]
        ELSE THREAT_LEVELS[CHOOSE k \in holding : \A j \in holding : k <= j]

recommendationOf(total) ==
    IF total >= DangerousFrom
      THEN "DELETE IMMEDIATELY - Do not interact with this email"
    ELSE IF total >= SuspiciousFrom
      THEN "EXERCISE CAUTION - Verify sender before taking action"
    ELSE "Email appears safe - Standard caution advised"

calculateThreatScore(a) ==
    LET totalScore == clampScore(applyFloors(a, weightedTotal(a)))
    IN  [score          |-> totalScore,
         level          |-> levelOf(totalScore),
         recommendation |-> recommendationOf(totalScore),
         reasons        |-> sliceReasons(collectReasons(a))]

----------------------------------------------------------------------------
(* EmailParser.extractMetadata: the metadata the parser attaches to the facts *)
(* it hands to analyzeEmail.  A page is what the parser read from the open    *)
(* email: sender, senderName, subject, body, urls, attachments, imageCount,   *)
(* recipientCount and the location hash.                                      *)

\* EmailParser.extractDomain: email.match(/@(.+)$/), Null when nothing matches
parserExtractDomain(email) ==
    LET at == IndexOf(email, "@")
    IN  IF at = 0 \/ at = Len(email) THEN Null ELSE SuffixFrom(email, at + 1)

\* EmailParser.doesNameMatchDomain
doesNameMatchDomain(name, email) ==
    IF name = "" \/ email = Null \/ email = "" THEN FALSE
    ELSE LET domain == parserExtractDomain(email)
         IN  IF domain = Null THEN FALSE
             ELSE LET nameLower == toLowerCase(name)
                      domainLower == toLowerCase(domain)
                  IN  \/ domainLower \in {"gmail.com", "outlook.com", "yahoo.com", "hotmail.com"}
                      \/ Contains(nameLower, domainLower)
                      \/ Contains(domainLower, nameLower)

\* EmailParser.extractMetadata, the fields the analyzers read
extractMetadata(page) ==
    [hasAttachments  |-> Len(page.attachments) > 0,
     attachmentCount |-> Len(page.attachments),
     urlCount        |-> Len(page.urls),
     bodyLength      |-> Len(page.body),
     subjectLength   |-> Len(page.subject),
     senderDomain    |-> parserExtractDomain(page.sender),
     senderNamePresent |-> page.senderName # "",
     senderNameMatchesDomain |-> doesNameMatchDomain(page.senderName, page.sender),
     hasImages       |-> page.imageCount,
     hasEmbeddedLinks |-> Len(page.urls) > 0,
     recipientCount  |-> page.recipientCount,
     isBcc           |-> FALSE,
     isReply         |-> StartsWith(toLowerCase(page.subject), "re:"),
     isForward       |-> StartsWith(toLowerCase(page.subject), "fwd:"),
     isSpamFolder    |-> \/ Contains(toLowerCase(page.locationHash), "#spam")
                         \/ Contains(toLowerCase(page.locationHash), "/spam")]

\* EmailParser.parseEmail, the fields of its result that analyzeEmail reads
parseEmail(page) ==
    [sender      |-> page.sender,
     subject     |-> page.subject,
     body        |-> page.body,
     urls        |-> page.urls,
     attachments |-> page.attachments,
     metadata    |-> extractMetadata(page)]

----------------------------------------------------------------------------
(* The emails and the network answers that Spec runs analyzeEmail on *)

\* a sender the parser kept although it holds no '@domain', and two with a domain
Senders == {"Billing Team", "Service@PayPal.com", "alert@paypa1-security.info"}

\* the sample emails: subject, body and the attachments that come with them
Letters ==
    { [subject |-> "Lunch", body |-> "See you at noon", attachments |-> <<>>],
      [subject |-> "Your PayPal account", body |-> "Please review your recent activity",
       attachments |-> <<>>],
      [subject |-> "PayPal and Amazon", body |-> "Your order update",
       attachments |-> <<[name |-> "receipt.pdf", extension |-> "pdf"]>>],
      [subject |-> "URGENT: action required",
       body |-> "Dear customer, verify your account now. Click here and enter your "
                \o "password to avoid suspension.",
       attachments |-> <<[name |-> "invoice.pdf.exe", extension |-> "exe"]>>] }

IpLoginUrl == "http://192.168.0.1/login"
MalformedUrl == "not a url"


\* more URLs than analyzeUrls looks at: the tenth is malformed, those after it dangerous
LongUrlList ==
    [i \in 1..(UrlCap + ExtraUrls) |->
        IF i < UrlCap THEN "https://example.org/p" \o ToString(i)
        ELSE IF i = UrlCap THEN MalformedUrl
        ELSE IpLoginUrl]

UrlLists ==
    { <<>>,
      \* the third has a look-alike host: its second letter is not an ASCII letter
      <<MalformedUrl, IpLoginUrl, "https://p" \o NonAsciiChar \o "ypal-login.tk">>,
      <<"https://bit.ly/x1", MalformedUrl, "https://tinyurl.com/y2">>,
      LongUrlList }

LocationHashes == {"#inbox/18c2", "#spam/18c2"}

Pages ==
    [sender: Senders, senderName: {""}, letter: Letters, urls: UrlLists,
     imageCount: {0}, recipientCount: {1}, locationHash: LocationHashes]

pageOf(p) ==
    [sender |-> p.sender, senderName |-> p.senderName, subject |-> p.letter.subject,
     body |-> p.letter.body, urls |-> p.urls, attachments |-> p.letter.attachments,
     imageCount |-> p.imageCount, recipientCount |-> p.recipientCount,
     locationHash |-> p.locationHash]

EmailInputs == {parseEmail(pageOf(p)) : p \in Pages}

SpfResponses ==
    { [kind |-> "ok", answer |-> <<[data |-> "v=spf1 include:_spf.example.net -all",
                                    priority |-> 0]>>],
      [kind |-> "httpError", answer |-> <<>>],
      [kind |-> "never", answer |-> <<>>] }

DmarcResponses ==
    { [kind |-> "ok", answer |-> <<[data |-> "v=DMARC1; p=reject; rua=mailto:d@example.net",
                                    priority |-> 0]>>],
      [kind |-> "networkError", answer |-> <<>>],
      [kind |-> "never", answer |-> <<>>] }

MxResponses ==
    { [kind |-> "ok", answer |-> <<[data |-> "mx2.example.net", priority |-> 20],
                                   [data |-> "mx1.example.net", priority |-> 10]>>],
      [kind |-> "never", answer |-> <<>>] }

ExpandResponses ==
    { [kind |-> "ok", url |-> "https://paypal-login.tk/verify"],
      [kind |-> "networkError", url |-> ""],
      [kind |-> "never", url |-> ""] }

\* a request the network has not dealt with yet
Unanswered == [kind |-> "unanswered"]

\* the URLs of urls.slice(0, 10) that analyzeUrl sends to expandURL
shortUrlsOf(urls) == {u \in {firstUrls(urls)[i] : i \in 1..Len(firstUrls(urls))} : isShortUrl(u)}

\* the requests one analysis of email makes, none of them dealt with
NoAnswers(email) ==
    [spf |-> Unanswered, dmarc |-> Unanswered, mx |-> Unanswered,
     expand |-> [u \in shortUrlsOf(email.urls) |-> Unanswered]]

\* an analyzer promise that has not settled yet
Pending == [status |-> "pending"]

\* analyzeEmail has returned nothing yet
NoVerdict == [threatLevel |-> "none"]

\* calculateThreatScore has not been called yet
NoAnalysis == [metadata |-> "none"]

\* spf and dmarc of analyzeSender before their awaits have assigned them
NoLocals == [spf |-> Null, dmarc |-> Null]

\* the two settings the content script reads
DEFAULT_SETTINGS == [autoAnalyze |-> TRUE, logHistory |-> TRUE]

\* the extension as installed: the content script has just loaded on the inbox list,
\* chrome.storage.local is empty and the background page has no call in progress
Installed ==
    /\ gmail = [hash |-> "#inbox", loaded |-> TRUE, currentEmailId |-> Null,
                analysisInProgress |-> FALSE, timers |-> 0, checks |-> <<>>,
                runs |-> <<>>, banner |-> Null, logs |-> <<>>, opened |-> 0, popups |-> 0,
                logged |-> {}]
    /\ storage = [settings |-> DEFAULT_SETTINGS, history |-> <<>>, cache |-> <<>>]
    /\ now = 0
    /\ calls = <<>>

\* no call of analyzeEmail has been made
NotStarted ==
    /\ pc = "idle"
    /\ senderStep = "idle"
    /\ senderLocals = NoLocals
    /\ urlRuns = <<>>
    /\ senderAnalysis = Pending
    /\ urlAnalysis = Pending
    /\ contentAnalysis = Pending
    /\ attachmentAnalysis = Pending
    /\ verdict = NoVerdict

----------------------------------------------------------------------------
(* ScoreSpec: calculateThreatScore over every combination of analyzer       *)
(* outputs                                                                  *)

NoThreat == [score |-> 0, level |-> "none", recommendation |-> "", reasons |-> <<>>]

ScoreInputs ==
    [spf: AuthStatuses, dmarc: AuthStatuses, suspicious: BOOLEAN,
     phishingScore: 0..MaxScore, socialEngineering: Tiers,
     impersonation: BOOLEAN, shortBodyWithLinks: BOOLEAN, isSpamFolder: BOOLEAN,
     dangerousUrls: 0..MaxDangerous, dangerousAttachments: 0..MaxDangerous]

MakeAnalysis(i) ==
    [senderAnalysis     |-> [spf |-> i.spf, dmarc |-> i.dmarc,
                             domainInfo |-> [suspicious |-> i.suspicious]],
     urlAnalysis        |-> [dangerousCount |-> i.dangerousUrls],
     contentAnalysis    |-> [phishingScore |-> i.phishingScore,
                             socialEngineering |-> i.socialEngineering,
                             impersonation |-> i.impersonation,
                             shortBodyWithLinks |-> i.shortBodyWithLinks],
     attachmentAnalysis |-> [dangerousCount |-> i.dangerousAttachments],
     metadata           |-> [isSpamFolder |-> i.isSpamFolder]]

\* the analyzer outputs of an authenticated, benign email with no findings
LowestRisk ==
    [spf |-> "pass", dmarc |-> "pass", suspicious |-> FALSE,
     phishingScore |-> 0, socialEngineering |-> "Low",
     impersonation |-> FALSE, shortBodyWithLinks |-> FALSE, isSpamFolder |-> FALSE,
     dangerousUrls |-> 0, dangerousAttachments |-> 0]

\* Every member of ScoreInputs is reached from LowestRisk by the Raise actions.
ScoreInit ==
    /\ LowestRisk \in ScoreInputs
    /\ analysis = MakeAnalysis(LowestRisk)
    /\ threat = NoThreat
    /\ emailFacts = CHOOSE e \in EmailInputs : TRUE
    /\ net = NoAnswers(emailFacts)
    /\ NotStarted
    /\ Installed

Calculated == threat.level # "none"

\* the call calculateThreatScore(analysis)
Calculate ==
    /\ ~Calculated
    /\ threat' = calculateThreatScore(analysis)
    /\ UNCHANGED analysis
    /\ UNCHANGED runVars
    /\ UNCHANGED shellVars

\* calculateThreatScore called again on an analysis that differs in one signal
Recalculate(a) ==
    /\ Calculated
    /\ analysis' = a
    /\ threat' = calculateThreatScore(a)
    /\ UNCHANGED runVars
    /\ UNCHANGED shellVars

RaiseSpf ==
    /\ analysis.senderAnalysis.spf = "pass"
    /\ \E s \in AuthStatuses \ {"pass"} :
          Recalculate([analysis EXCEPT !.senderAnalysis.spf = s])

RaiseDmarc ==
    /\ analysis.senderAnalysis.dmarc = "pass"
    /\ \E s \in AuthStatuses \ {"pass"} :
          Recalculate([analysis EXCEPT !.senderAnalysis.dmarc = s])

RaiseDomainSuspicious ==
    /\ ~analysis.senderAnalysis.domainInfo.suspicious
    /\ Recalculate([analysis EXCEPT !.senderAnalysis.domainInfo.suspicious = TRUE])

\* one point at a time: any higher phishingScore is a chain of these steps
RaisePhishingScore ==
    /\ analysis.contentAnalysis.phishingScore < MaxScore
    /\ Recalculate([analysis EXCEPT !.contentAnalysis.phishingScore = @ + 1])

TierRank(t) == CASE t = "Low" -> 0 [] t = "Moderate" -> 1 [] t = "High" -> 2

RaiseSocialEngineering ==
    \E t \in Tiers :
        /\ TierRank(t) > TierRank(analysis.contentAnalysis.socialEngineering)
        /\ Recalculate([analysis EXCEPT !.contentAnalysis.socialEngineering = t])

RaiseImpersonation ==
    /\ ~analysis.contentAnalysis.impersonation
    /\ Recalculate([analysis EXCEPT !.contentAnalysis.impersonation = TRUE])

RaiseShortBodyWithLinks ==
    /\ ~analysis.contentAnalysis.shortBodyWithLinks
    /\ Recalculate([analysis EXCEPT !.contentAnalysis.shortBodyWithLinks = TRUE])

RaiseSpamFolder ==
    /\ ~analysis.metadata.isSpamFolder
    /\ Recalculate([analysis EXCEPT !.metadata.isSpamFolder = TRUE])

AddDangerousUrl ==
    /\ analysis.urlAnalysis.dangerousCount = 0
    /\ \E n \in 1..MaxDangerous :
          Recalculate([analysis EXCEPT !.urlAnalysis.dangerousCount = n])

AddDangerousAttachment ==
    /\ analysis.attachmentAnalysis.dangerousCount = 0
    /\ \E n \in 1..MaxDangerous :
          Recalculate([analysis EXCEPT !.attachmentAnalysis.dangerousCount = n])

ScoreNext ==
    \/ Calculate
    \/ RaiseSpf
    \/ RaiseDmarc
    \/ RaiseDomainSuspicious
    \/ RaisePhishingScore
    \/ RaiseSocialEngineering
    \/ RaiseImpersonation
    \/ RaiseShortBodyWithLinks
    \/ RaiseSpamFolder
    \/ AddDangerousUrl
    \/ AddDangerousAttachment

ScoreSpec == ScoreInit /\ [][ScoreNext]_vars

----------------------------------------------------------------------------
(* Spec: one call of AnalyzerService.analyzeEmail.  The four analyzers start  *)
(* together; analyzeSender awaits its SPF, DMARC and MX lookups one after the *)
(* other, every short URL awaits its own expansion request, and the answers   *)
(* arrive in any order.  analyzeContent and analyzeAttachments hold no await  *)
(* and settle when they are called.                                           *)

\* a catch branch that would keep the analyzer outputs built so far
errorVerdictMerging(message) ==
    [threatScore    |-> 50,
     threatLevel    |-> "SUSPICIOUS",
     recommendation |-> "Analysis incomplete - exercise caution",
     reasons        |-> <<"Analysis error: " \o message>>,
     error          |-> message,
     urlAnalysis    |-> urlAnalysis]

\* the catch branch of analyzeEmail
errorVerdict(message) ==
    [threatScore    |-> 50,
     threatLevel    |-> "SUSPICIOUS",
     recommendation |-> "Analysis incomplete - exercise caution",
     reasons        |-> <<"Analysis error: " \o message>>,
     error          |-> message]

\* the value analyzeEmail returns after calculateThreatScore
successVerdict(threatScore, a, metadata) ==
    [threatScore    |-> threatScore.score,
     threatLevel    |-> threatScore.level,
     recommendation |-> threatScore.recommendation,
     reasons        |-> threatScore.reasons,
     senderAnalysis |-> a.senderAnalysis,
     urlAnalysis    |-> a.urlAnalysis,
     contentAnalysis |-> a.contentAnalysis,
     attachmentAnalysis |-> a.attachmentAnalysis,
     domainInfo     |-> a.senderAnalysis.domainInfo,
     emailMetadata  |-> metadata]

\* the argument analyzeEmail builds for calculateThreatScore
analysisOf(sender, urls, content, attachments, metadata) ==
    [senderAnalysis |-> sender, urlAnalysis |-> urls, contentAnalysis |-> content,
     attachmentAnalysis |-> attachments, metadata |-> metadata]

\* analyzeUrl up to its first suspension: a short URL waits for expandURL, any
\* other URL runs to its result
startAnalyzeUrl(url) ==
    IF isShortUrl(url)
      THEN [url |-> url, step |-> "expanding", result |-> unableToAnalyze(url)]
      ELSE [url |-> url, step |-> "done", result |-> analyzeResolvedUrl(url, url)]

\* Promise.all keeps the value of the i-th promise at index i
resolveAt(runs, i, result) ==
    [runs EXCEPT ![i] = [url |-> runs[i].url, step |-> "done", result |-> result]]

\* a join that would not wait for every analyzeUrl call: it settles with the first
analyzeUrlsSettledEarly(runs) ==
    IF \E i \in 1..Len(runs) : runs[i].step = "done"
      THEN Fulfilled(urlAnalysisOf([i \in 1..Len(runs) |-> runs[i].result]))
      ELSE Pending

\* what the promise of analyzeUrls has settled to, given its analyzeUrl calls
analyzeUrlsSettled(runs) ==
    IF \A i \in 1..Len(runs) : runs[i].step = "done"
      THEN Fulfilled(urlAnalysisOf([i \in 1..Len(runs) |-> runs[i].result]))
      ELSE Pending

\* the Promise.all of analyzeEmail with the sender and URL promises settled to sa and
\* ua: once all four are fulfilled the verdict is calculated and returned
JoinAnalyzers(sa, ua) ==
    IF pc = "awaiting" /\ sa.status = "ok" /\ ua.status = "ok"
      THEN LET a == analysisOf(sa.value, ua.value, contentAnalysis.value,
                               attachmentAnalysis.value, emailFacts.metadata)
               threatScore == calculateThreatScore(a)
           IN  /\ analysis' = a
               /\ threat' = threatScore
               /\ verdict' = successVerdict(threatScore, a, emailFacts.metadata)
               /\ pc' = "returned"
      ELSE UNCHANGED <<analysis, threat, verdict, pc>>

Init ==
    /\ emailFacts \in EmailInputs
    /\ net = NoAnswers(emailFacts)
    /\ analysis = NoAnalysis
    /\ threat = NoThreat
    /\ NotStarted
    /\ Installed

\* analyzeEmail(emailFacts) is called and runs until it suspends
StartAnalysis ==
    /\ pc = "idle"
    /\ senderStep' = "spf"
    /\ urlRuns' = [i \in 1..Len(firstUrls(emailFacts.urls)) |->
                      startAnalyzeUrl(emailFacts.urls[i])]
    /\ urlAnalysis' = IF Len(emailFacts.urls) = 0 THEN Fulfilled(emptyUrlAnalysis)
                      ELSE analyzeUrlsSettled(urlRuns')
    /\ contentAnalysis' = analyzeContent(emailFacts)
    /\ attachmentAnalysis' = Fulfilled(analyzeAttachments(emailFacts.attachments))
    /\ IF contentAnalysis'.status = "threw"
         THEN /\ verdict' = errorVerdict(contentAnalysis'.message)
              /\ pc' = "returned"
         ELSE /\ verdict' = verdict
              /\ pc' = "awaiting"
    /\ UNCHANGED <<analysis, threat, emailFacts, net, senderLocals, senderAnalysis>>
    /\ UNCHANGED shellVars

\* the TXT lookup of checkSPF is dealt with: it settles, or it never will
SpfResponds ==
    /\ senderStep = "spf"
    /\ net.spf = Unanswered
    /\ \E response \in SpfResponses :
          /\ net' = [net EXCEPT !.spf = response]
          /\ IF response.kind = "never"
               THEN UNCHANGED <<senderLocals, senderStep>>
               ELSE /\ senderLocals' = [senderLocals EXCEPT !.spf = checkSPF(resolve(response))]
                    /\ senderStep' = "dmarc"
    /\ UNCHANGED <<analysis, threat, emailFacts, pc, urlRuns, senderAnalysis,
                   urlAnalysis, contentAnalysis, attachmentAnalysis, verdict>>
    /\ UNCHANGED shellVars

\* the TXT lookup of checkDMARC is dealt with
DmarcResponds ==
    /\ senderStep = "dmarc"
    /\ net.dmarc = Unanswered
    /\ \E response \in DmarcResponses :
          /\ net' = [net EXCEPT !.dmarc = response]
          /\ IF response.kind = "never"
               THEN UNCHANGED <<senderLocals, senderStep>>
               ELSE /\ senderLocals' = [senderLocals EXCEPT
                                          !.dmarc = checkDMARC(resolve(response))]
                    /\ senderStep' = "mx"
    /\ UNCHANGED <<analysis, threat, emailFacts, pc, urlRuns, senderAnalysis,
                   urlAnalysis, contentAnalysis, attachmentAnalysis, verdict>>
    /\ UNCHANGED shellVars

\* the MX lookup of getMXRecords is dealt with: when it settles analyzeSender returns
MxResponds ==
    /\ senderStep = "mx"
    /\ net.mx = Unanswered
    /\ \E response \in MxResponses :
          /\ net' = [net EXCEPT !.mx = response]
          /\ IF response.kind = "never"
               THEN UNCHANGED <<senderStep, senderAnalysis, analysis, threat, verdict, pc>>
               ELSE /\ senderStep' = "done"
                    /\ senderAnalysis' =
                          Fulfilled(senderResult(emailFacts, senderLocals.spf,
                                                 senderLocals.dmarc,
                                                 getMXRecords(resolve(response))))
                    /\ JoinAnalyzers(senderAnalysis', urlAnalysis)
    /\ UNCHANGED <<emailFacts, senderLocals, urlRuns, urlAnalysis, contentAnalysis,
                   attachmentAnalysis>>
    /\ UNCHANGED shellVars

\* the HEAD request of expandURL for the i-th URL is dealt with: when it settles that
\* analyzeUrl returns
ExpandResponds(i) ==
    /\ urlRuns[i].step = "expanding"
    /\ net.expand[urlRuns[i].url] = Unanswered
    /\ \E response \in ExpandResponses :
          /\ net' = [net EXCEPT !.expand[urlRuns[i].url] = response]
          /\ IF response.kind = "never"
               THEN UNCHANGED <<urlRuns, urlAnalysis, analysis, threat, verdict, pc>>
               ELSE /\ urlRuns' = resolveAt(urlRuns, i,
                                            analyzeResolvedUrl(urlRuns[i].url,
                                                               expandURL(urlRuns[i].url,
                                                                         response)))
                    /\ urlAnalysis' = analyzeUrlsSettled(urlRuns')
                    /\ JoinAnalyzers(senderAnalysis, urlAnalysis')
    /\ UNCHANGED <<emailFacts, senderStep, senderLocals, senderAnalysis,
                   contentAnalysis, attachmentAnalysis>>
    /\ UNCHANGED shellVars

Next ==
    \/ StartAnalysis
    \/ SpfResponds
    \/ DmarcResponds
    \/ MxResponds
    \/ \E i \in 1..Len(urlRuns) : ExpandResponds(i)

Spec == Init /\ [][Next]_vars

----------------------------------------------------------------------------
(* PartSpec: the analyzers of AnalyzerService called one at a time, each on inputs
   drawn from a bounded set *)

\* what the fetch of DNSService.resolve can end in, per lookup: an answer with a
\* usable record, an answer without one, an HTTP error status, a rejected fetch, a
\* body that is not JSON
LookupOutcomes ==
    LET failures == { [kind |-> "httpError", answer |-> <<>>],
                      [kind |-> "networkError", answer |-> <<>>],
                      [kind |-> "invalidJson", answer |-> <<>>] }
        txt(data) == [kind |-> "ok", answer |-> <<[data |-> "google-site-verification=a1", priority |-> 0],
                                                  [data |-> data, priority |-> 0]>>]
    IN  [spf   |-> failures \cup {txt("v=spf1 include:_spf.example.net -all"),
                                  txt("v=spf1 a mx ?all"),
                                  txt("docusign=5e1f"),
                                  [kind |-> "ok", answer |-> <<>>]},
         dmarc |-> failures \cup {txt("v=DMARC1; p=quarantine"),
                                  txt("v=DMARC1; p=none"),
                                  txt("docusign=5e1f")},
         mx    |-> failures \cup {[kind |-> "ok",
                                   answer |-> <<[data |-> "mx2.example.net", priority |-> 20],
                                                [data |-> "mx1.example.net", priority |-> 10]>>],
                                  [kind |-> "ok", answer |-> <<>>]}]

\* analyzeSender run to its end on the given answers, and the score of its result next
\* to the other analyzers' results for the same email
senderAndScore(emailData, spfResponse, dmarcResponse, mxResponse) ==
    LET sender == senderResult(emailData, checkSPF(resolve(spfResponse)),
                               checkDMARC(resolve(dmarcResponse)),
                               getMXRecords(resolve(mxResponse)))
        a == analysisOf(sender, emptyUrlAnalysis, analyzeContent(emailData).value,
                        analyzeAttachments(emailData.attachments), emailData.metadata)
    IN  [sender |-> sender, analysis |-> a, threat |-> calculateThreatScore(a)]

PartInit ==
    /\ emailFacts \in {e \in EmailInputs : /\ e.urls = <<>>
                                           /\ ~e.metadata.isSpamFolder
                                           /\ extractDomain(e.sender) # Null
                                           /\ e.subject = "Your PayPal account"}
    /\ net = NoAnswers(emailFacts)
    /\ analysis = NoAnalysis
    /\ threat = NoThreat
    /\ NotStarted
    /\ Installed

\* analyzeSender(emailFacts), with the three lookups ending in any of their outcomes
AnalyzeSender ==
    /\ pc = "idle"
    /\ \E spf \in LookupOutcomes.spf, dmarc \in LookupOutcomes.dmarc, mx \in LookupOutcomes.mx :
          LET r == senderAndScore(emailFacts, spf, dmarc, mx)
          IN  /\ net' = [net EXCEPT !.spf = spf, !.dmarc = dmarc, !.mx = mx]
              /\ senderAnalysis' = Fulfilled(r.sender)
              /\ analysis' = r.analysis
              /\ threat' = r.threat
    /\ pc' = "sender"
    /\ UNCHANGED <<emailFacts, senderStep, senderLocals, urlRuns, urlAnalysis,
                   contentAnalysis, attachmentAnalysis, verdict>>
    /\ UNCHANGED shellVars

\* analyzeAttachments on a list of attachments, and calculateThreatScore on its result
\* next to otherwise clean analyzer results
AnalyzeAttachments ==
    /\ pc = "idle"
    /\ \E n \in 0..MaxAttachments : \E list \in [1..n ->
           \* attachments as EmailParser.extractAttachments reports them: the name and
           \* getFileExtension(name)
           { [name |-> "invoice.pdf.exe", extension |-> "exe"],
           [name |-> "setup.msi", extension |-> "msi"],
           [name |-> "Report.DOCM", extension |-> "docm"],
           [name |-> "budget.v2.xlsm", extension |-> "xlsm"],
           [name |-> "receipt.pdf", extension |-> "pdf"],
           [name |-> "backup.tar.gz", extension |-> "gz"],
           [name |-> "photo.final.jpg", extension |-> "jpg"],
           [name |-> "notes.txt", extension |-> "txt"],
           [name |-> "README", extension |-> ""] }] :
          /\ emailFacts' = [emailFacts EXCEPT !.attachments = list]
          /\ attachmentAnalysis' = Fulfilled(analyzeAttachments(list))
          /\ analysis' = [MakeAnalysis(LowestRisk) EXCEPT
                             !.attachmentAnalysis = analyzeAttachments(list)]
          /\ threat' = calculateThreatScore(analysis')
    /\ pc' = "attachments"
    /\ UNCHANGED <<net, senderStep, senderLocals, urlRuns, senderAnalysis, urlAnalysis,
                   contentAnalysis, verdict>>
    /\ UNCHANGED shellVars

\* analyzeContent on an email of the sender of emailFacts
AnalyzeContent ==
    /\ pc = "idle"
    \* the texts: no keyword, one brand, keywords of more than 100 points
    /\ \E text \in
          { [subject |-> "Lunch", body |-> "See you at noon"],
            [subject |-> "Your PayPal account", body |-> "Please review your recent activity"],
            [subject |-> "URGENT: account suspended",
             body |-> "Dear customer, verify your account and password now. Click here to settle "
                      \o "the invoice by wire transfer, bitcoin or gift card."] } :
       \* the Metadata values: the counts on both sides of each threshold, as the parser
       \* derives them or with some fields left out by the caller
       \E metadata \in
      LET bodyLength == Len(text.body)
          full == { [hasAttachments |-> attachmentCount > 0, attachmentCount |-> attachmentCount,
                     urlCount |-> urlCount, bodyLength |-> bodyLength,
                     recipientCount |-> recipientCount, hasImages |-> hasImages,
                     isReply |-> isReply, isForward |-> FALSE, isSpamFolder |-> FALSE] :
                       attachmentCount \in {0, 4}, urlCount \in {0, 1, 6},
                       recipientCount \in {1, 11}, hasImages \in {0, 6}, isReply \in BOOLEAN }
          leftOut == { {}, {"hasAttachments"}, {"isReply", "isForward"},
                       {"hasAttachments", "attachmentCount", "urlCount", "bodyLength",
                        "recipientCount", "hasImages", "isReply", "isForward", "isSpamFolder"} }
      IN  { [f \in (DOMAIN m) \ out |-> m[f]] : m \in full, out \in leftOut } :
          /\ emailFacts' = [emailFacts EXCEPT !.subject = text.subject, !.body = text.body,
                                              !.metadata = metadata]
          /\ contentAnalysis' = analyzeContent(emailFacts')
    /\ pc' = "content"
    /\ UNCHANGED <<analysis, threat, net, senderStep, senderLocals, urlRuns, senderAnalysis,
                   urlAnalysis, attachmentAnalysis, verdict>>
    /\ UNCHANGED shellVars

\* the content script shows a verdict: threatLevel is Helpers.getThreatLevel of its
\* threatScore (gmail-content.js:196), for the verdict of calculateThreatScore or, when
\* failed is true, for the verdict of the catch branch of analyzeEmail
ShowVerdict ==
    /\ pc = "idle"
    \* the analyzer results shown: every phishing score with its tier, every sender
    \* score, with and without a dangerous URL and a dangerous attachment
    /\ \E failed \in BOOLEAN : \E i \in
       { [LowestRisk EXCEPT !.spf = i.spf, !.dmarc = i.dmarc, !.suspicious = i.suspicious,
                            !.phishingScore = i.phishingScore,
                            !.socialEngineering = socialEngineeringOf(i.phishingScore),
                            !.dangerousUrls = i.dangerousUrls,
                            !.dangerousAttachments = i.dangerousAttachments] :
           i \in [spf: {"pass", "fail"}, dmarc: {"pass", "fail"}, suspicious: BOOLEAN,
                  phishingScore: 0..MaxScore, dangerousUrls: {0, 1},
                  dangerousAttachments: {0, 1}] } :
          /\ analysis' = MakeAnalysis(i)
          /\ threat' = calculateThreatScore(analysis')
          /\ LET returned == IF failed THEN errorVerdict(NullIncludesError)
                             ELSE [threatScore |-> threat'.score, threatLevel |-> threat'.level]
             IN  verdict' = [threatScore |-> returned.threatScore,
                             threatLevel |-> returned.threatLevel,
                             shownLevel  |-> getThreatLevel(returned.threatScore).label]
    /\ pc' = "shown"
    /\ UNCHANGED <<emailFacts, net, senderStep, senderLocals, urlRuns, senderAnalysis,
                   urlAnalysis, contentAnalysis, attachmentAnalysis>>
    /\ UNCHANGED shellVars

PartNext ==
    \/ AnalyzeSender
    \/ AnalyzeAttachments
    \/ AnalyzeContent
    \/ ShowVerdict

PartSpec == PartInit /\ [][PartNext]_vars

----------------------------------------------------------------------------
\* The Gmail content script (gmail-content.js): the observers call
\* checkCurrentEmail, which starts analyzeEmail, which injects the banner and logs
\* the result to the history.

MaxOpenings == 2
MaxPopups == 1
MaxTimers == 2
HistoryLimit == 100

\* EmailParser.getEmailId on Gmail: the first match of /#([^/]+)/ in the hash
getEmailId(hash) ==
    LET start == IndexOf(hash, "#")
        rest  == SuffixFrom(hash, start + 1)
        id    == IF Contains(rest, "/") THEN SubSeq(rest, 1, IndexOf(rest, "/") - 1)
                 ELSE rest
    IN  IF start = 0 \/ id = "" THEN Null ELSE id

\* the test of handleUrlChange for a URL that shows an email
isEmailUrl(url) ==
    Contains(url, "#inbox/") \/ Contains(url, "#all/") \/ Contains(url, "#label/")

\* checkCurrentEmail up to its first await, on the content script state g: it gives up
\* while an analysis is in progress, when no email is open and when the email id is
\* the current one; otherwise it records the id, parses the email (null until the
\* body has rendered) and goes on to await getSettings
checkCurrentEmail(g) ==
    IF g.analysisInProgress THEN g
    ELSE IF ~isEmailUrl(g.hash) THEN g
    ELSE IF getEmailId(g.hash) = Null \/ getEmailId(g.hash) = g.currentEmailId THEN g
    ELSE IF ~g.loaded THEN [g EXCEPT !.currentEmailId = getEmailId(g.hash)]
    ELSE [g EXCEPT !.currentEmailId = getEmailId(g.hash),
                   !.checks = Append(@, g.hash)]

\* analyzeEmail(emailData) up to its await: the flag is set, the spinner shown and
\* analyzer.analyzeEmail called
startAnalyzeEmail(g, emailData) ==
    [g EXCEPT !.analysisInProgress = TRUE,
              !.runs = Append(@, emailData)]

\* Helpers.generateId(): an id no other entry of this session has
generateId(g) ==
    Cardinality(g.logged) + Cardinality({i \in 1..Len(g.logs) : g.logs[i].step # "settings"})

\* history.unshift(entry) followed by history.splice(100)
unshiftEntry(history, entry) ==
    SubSeq(<<entry>> \o history, 1, Min(Len(history) + 1, HistoryLimit))

\* a history that is full: a hundred earlier entries, newest first
FullHistory ==
    [i \in 1..HistoryLimit |->
        [id |-> 0 - i, timestamp |-> HistoryLimit + 1 - i, email |-> "#inbox/0"]]

\* the content script has loaded on the inbox list; the user's settings and the
\* history of earlier sessions are in chrome.storage
GmailInit ==
    /\ analysis = NoAnalysis
    /\ threat = NoThreat
    /\ emailFacts = CHOOSE e \in EmailInputs : TRUE
    /\ net = NoAnswers(emailFacts)
    /\ NotStarted
    /\ gmail = [hash |-> "#inbox", loaded |-> TRUE, currentEmailId |-> Null,
                analysisInProgress |-> FALSE, timers |-> 0, checks |-> <<>>,
                runs |-> <<>>, banner |-> Null, logs |-> <<>>, opened |-> 0, popups |-> 0,
                logged |-> {}]
    /\ \E settings \in {DEFAULT_SETTINGS,
                        [DEFAULT_SETTINGS EXCEPT !.autoAnalyze = FALSE],
                        [DEFAULT_SETTINGS EXCEPT !.logHistory = FALSE]},
          history \in {<<>>, FullHistory} :
          storage = [settings |-> settings, history |-> history, cache |-> <<>>]
    /\ now = HistoryLimit + 1
    /\ calls = <<>>

\* the user goes to another view or email: Gmail replaces the view, the body of an
\* email may render later, and the URL observer calls handleUrlChange
Navigate(hash) ==
    /\ hash # gmail.hash
    /\ gmail.opened < MaxOpenings
    /\ gmail.timers < MaxTimers
    /\ \E rendered \in BOOLEAN :
          /\ ~isEmailUrl(hash) => rendered
          /\ gmail' = IF isEmailUrl(hash)
                        THEN [gmail EXCEPT !.hash = hash, !.loaded = rendered,
                                           !.banner = Null, !.timers = @ + 1,
                                           !.opened = @ + 1]
                        ELSE [gmail EXCEPT !.hash = hash, !.loaded = rendered,
                                           !.banner = Null, !.currentEmailId = Null,
                                           !.opened = @ + 1]
    /\ UNCHANGED <<analysis, threat, storage, now, calls>>
    /\ UNCHANGED runVars

\* the keydown listener: j or k schedules checkCurrentEmail
KeyNavigation ==
    /\ gmail.timers < MaxTimers
    /\ gmail' = [gmail EXCEPT !.timers = @ + 1]
    /\ UNCHANGED <<analysis, threat, storage, now, calls>>
    /\ UNCHANGED runVars

\* a setTimeout callback of handleUrlChange or of the keydown listener runs
TimerFires ==
    /\ gmail.timers > 0
    /\ gmail' = checkCurrentEmail([gmail EXCEPT !.timers = @ - 1])
    /\ UNCHANGED <<analysis, threat, storage, now, calls>>
    /\ UNCHANGED runVars

\* the body of the open email renders: the DOM observer's debounced callback runs
BodyRenders ==
    /\ isEmailUrl(gmail.hash)
    /\ ~gmail.loaded
    /\ gmail' = checkCurrentEmail([gmail EXCEPT !.loaded = TRUE])
    /\ UNCHANGED <<analysis, threat, storage, now, calls>>
    /\ UNCHANGED runVars

\* getSettings of the oldest suspended checkCurrentEmail resolves: with autoAnalyze
\* it calls analyzeEmail
CheckResumes ==
    /\ gmail.checks # <<>>
    /\ gmail' = IF storage.settings.autoAnalyze
                  THEN startAnalyzeEmail([gmail EXCEPT !.checks = Tail(@)],
                                         Head(gmail.checks))
                  ELSE [gmail EXCEPT !.checks = Tail(@)]
    /\ UNCHANGED <<analysis, threat, storage, now, calls>>
    /\ UNCHANGED runVars

\* the ANALYZE_CURRENT_EMAIL message of the popup: parseEmail, then analyzeEmail
PopupAnalyze ==
    /\ isEmailUrl(gmail.hash)
    /\ gmail.loaded
    /\ gmail.popups < MaxPopups
    /\ gmail' = startAnalyzeEmail([gmail EXCEPT !.popups = @ + 1], gmail.hash)
    /\ UNCHANGED <<analysis, threat, storage, now, calls>>
    /\ UNCHANGED runVars

\* analyzer.analyzeEmail of the i-th running analyzeEmail resolves: the banner is
\* injected, logToHistory is called and the finally block clears the flag
AnalysisDone(i) ==
    /\ i \in 1..Len(gmail.runs)
    /\ gmail' = [gmail EXCEPT
                   !.banner = gmail.runs[i],
                   !.logs = Append(@, [email |-> gmail.runs[i], step |-> "settings"]),
                   !.analysisInProgress = FALSE,
                   !.runs = SubSeq(@, 1, i - 1) \o SubSeq(@, i + 1, Len(@))]
    /\ now' = now + 1
    /\ UNCHANGED <<analysis, threat, storage, calls>>
    /\ UNCHANGED runVars

\* getSettings of the oldest logToHistory call resolves: with logHistory the entry is
\* built and chrome.storage.local.get is called
LogResumes ==
    /\ \E i \in 1..Len(gmail.logs) :
          /\ gmail.logs[i].step = "settings"
          /\ \A j \in 1..(i - 1) : gmail.logs[j].step # "settings"
          /\ gmail' = IF storage.settings.logHistory
                        THEN [gmail EXCEPT !.logs[i] =
                                 [email |-> gmail.logs[i].email, step |-> "get",
                                  entry |-> [id |-> generateId(gmail),
                                             timestamp |-> now,
                                             email |-> gmail.logs[i].email]]]
                        ELSE [gmail EXCEPT !.logs =
                                 SubSeq(@, 1, i - 1) \o SubSeq(@, i + 1, Len(@))]
    /\ UNCHANGED <<analysis, threat, storage, now, calls>>
    /\ UNCHANGED runVars

\* chrome.storage.local reads the history for the oldest get that is waiting
LogReads ==
    /\ \E i \in 1..Len(gmail.logs) :
          /\ gmail.logs[i].step = "get"
          /\ \A j \in 1..(i - 1) : gmail.logs[j].step # "get"
          /\ gmail' = [gmail EXCEPT !.logs[i] =
                          [email |-> gmail.logs[i].email, step |-> "callback",
                           entry |-> gmail.logs[i].entry,
                           history |-> storage.history]]
    /\ UNCHANGED <<analysis, threat, storage, now, calls>>
    /\ UNCHANGED runVars

\* the callback of the oldest logToHistory call runs: unshift, splice, set
LogWrites ==
    /\ gmail.logs # <<>>
    /\ gmail.logs[1].step = "callback"
    /\ storage' = [storage EXCEPT
                     !.history = unshiftEntry(gmail.logs[1].history, gmail.logs[1].entry)]
    /\ gmail' = [gmail EXCEPT !.logs = Tail(@), !.logged = @ \cup {gmail.logs[1].entry}]
    /\ UNCHANGED <<analysis, threat, now, calls>>
    /\ UNCHANGED runVars

GmailNext ==
    \/ \E hash \in {"#inbox", "#inbox/a1", "#inbox/b2", "#label/c3"} : Navigate(hash)
    \/ KeyNavigation
    \/ TimerFires
    \/ BodyRenders
    \/ CheckResumes
    \/ PopupAnalyze
    \/ \E i \in 1..(MaxOpenings + MaxPopups) : AnalysisDone(i)
    \/ LogResumes
    \/ LogReads
    \/ LogWrites

GmailSpec == GmailInit /\ [][GmailNext]_vars

----------------------------------------------------------------------------
\* The background page: CacheManager (part_003) keeps one object under 'eti_cache'
\* in chrome.storage.local; every method reads the whole object and, to change it,
\* writes the whole object back. MessageHandler answers ANALYZE_EMAIL, ANALYZE_URL
\* and CHECK_DOMAIN from the cache or from the backend API.

MaxCalls == 3
MaxOverlap == 2
NaN == 0 - 1

\* CacheManager.generateKey
generateKey(type, identifier) == type \o ":" \o identifier

\* ttlMap of CacheManager.set, in milliseconds
ttlMap ==
    [domain |-> 24 * 60 * 60 * 1000, ip |-> 12 * 60 * 60 * 1000,
     url |-> 6 * 60 * 60 * 1000, email |-> 1 * 60 * 60 * 1000]

\* ttlMap[type] || 60 * 60 * 1000. ttlMap is an object literal: a type that names a
\* member of Object.prototype finds that function, which is truthy and not a number
ttlOf(type) ==
    IF type \in DOMAIN ttlMap THEN ttlMap[type]
    ELSE IF type \in {"constructor", "toString", "valueOf", "hasOwnProperty"} THEN NaN
    ELSE 60 * 60 * 1000

\* the entry set builds at Date.now() = t; adding a function to a number gives a
\* string, which compares as NaN
entryOf(data, type, t) ==
    [data |-> data,
     expiresAt |-> IF ttlOf(type) = NaN THEN NaN ELSE t + ttlOf(type),
     createdAt |-> t]

\* Date.now() > cached.expiresAt
isExpired(t, entry) == entry.expiresAt # NaN /\ t > entry.expiresAt

\* what get resolves with, on the cache object it has read
cacheGet(cache, key, t) ==
    IF key \notin DOMAIN cache THEN Null
    ELSE IF isExpired(t, cache[key]) THEN Null
    ELSE cache[key].data

\* cache[key] = entry
cacheWith(cache, key, entry) ==
    [k \in (DOMAIN cache) \cup {key} |-> IF k = key THEN entry ELSE cache[k]]

\* delete cache[key] for every key of keys
cacheWithout(cache, keys) == [k \in (DOMAIN cache) \ keys |-> cache[k]]

\* the cache type and identifier a handler of MessageHandler uses for a message
cacheTargetOf(message) ==
    CASE message.type = "ANALYZE_EMAIL" ->
            <<"email", message.data.sender \o message.data.subject>>
      [] message.type = "ANALYZE_URL"   -> <<"url", message.data>>
      [] message.type = "CHECK_DOMAIN"  -> <<"domain", message.data>>

\* the number of chrome.storage.local.get requests made so far: one by every call,
\* and a second one by a handler that went on to cacheManager.set
requestsIssued ==
    Len(calls) + Cardinality({i \in 1..Len(calls) :
                                 calls[i].op = "handle" /\ calls[i].phase = "set"})

\* call i is the first of the calls at step: chrome.storage answers requests, and
\* runs their callbacks, in the order they were made
firstAt(i, step) ==
    /\ i \in 1..Len(calls)
    /\ calls[i].step = step
    /\ \A j \in 1..Len(calls) : calls[j].step = step => calls[i].seq <= calls[j].seq

\* a call that has just been made: its chrome.storage.local.get is waiting
newCall(op, type, key, data) ==
    [op |-> op, phase |-> IF op = "handle" THEN "get" ELSE op, type |-> type,
     key |-> key, data |-> data, step |-> "read", cache |-> <<>>, result |-> Null,
     at |-> 0, wrote |-> FALSE, seq |-> requestsIssued + 1,
     before |-> {i \in 1..Len(calls) : calls[i].step = "done"}]

\* the background page has started; the cache is empty
CacheInit ==
    /\ analysis = NoAnalysis
    /\ threat = NoThreat
    /\ emailFacts = CHOOSE e \in EmailInputs : TRUE
    /\ net = NoAnswers(emailFacts)
    /\ NotStarted
    /\ Installed

\* CacheManager.get, set, clear or cleanup is called
CacheManagerCall(op, type, identifier) ==
    /\ Len(calls) < MaxCalls
    /\ Cardinality({i \in 1..Len(calls) : calls[i].step # "done"}) < MaxOverlap
    /\ calls' = Append(calls,
                       newCall(op, type,
                               IF op = "cleanup" THEN Null
                               ELSE generateKey(type, identifier),
                               IF op = "set" THEN <<"v1", "v2", "v3", "v4">>[Len(calls) + 1]
                               ELSE Null))
    /\ UNCHANGED <<analysis, threat, gmail, storage, now>>
    /\ UNCHANGED runVars

\* MessageHandler.handleMessage receives a message: its handler calls
\* cacheManager.get
HandleMessage(message) ==
    /\ Len(calls) < MaxCalls
    /\ Cardinality({i \in 1..Len(calls) : calls[i].step # "done"}) < MaxOverlap
    /\ calls' = Append(calls,
                       newCall("handle", cacheTargetOf(message)[1],
                               generateKey(cacheTargetOf(message)[1],
                                           cacheTargetOf(message)[2]),
                               Null))
    /\ UNCHANGED <<analysis, threat, gmail, storage, now>>
    /\ UNCHANGED runVars

\* chrome.storage.local reads the cache object for a get that is waiting
StorageReads(i) ==
    /\ firstAt(i, "read")
    /\ calls' = [calls EXCEPT ![i] = [@ EXCEPT !.cache = storage.cache,
                                               !.step = "callback"]]
    /\ UNCHANGED <<analysis, threat, gmail, storage, now>>
    /\ UNCHANGED runVars

\* the callback of chrome.storage.local.get runs for call i: get resolves, and the
\* handler that awaited it goes on; set, clear and cleanup change the object they
\* read and write it back with chrome.storage.local.set
Callback(i) ==
    /\ firstAt(i, "callback")
    /\ LET c == calls[i]
           found == cacheGet(c.cache, c.key, now)
           expired == {k \in DOMAIN c.cache : isExpired(now, c.cache[k])}
       IN  CASE c.phase = "get" ->
                  /\ calls' = [calls EXCEPT ![i] =
                        IF c.op = "get"
                          THEN [c EXCEPT !.step = "done", !.cache = <<>>,
                                         !.result = found, !.at = now]
                        ELSE IF found # Null
                          THEN [c EXCEPT !.step = "done", !.cache = <<>>, !.at = now,
                                         !.result = [success |-> TRUE, data |-> found,
                                                     cached |-> TRUE]]
                        ELSE [c EXCEPT !.phase = "api", !.step = "api", !.at = now]]
                  /\ UNCHANGED storage
             [] c.phase = "set" ->
                  /\ storage' = [storage EXCEPT !.cache =
                                    cacheWith(c.cache, c.key, entryOf(c.data, c.type, now))]
                  /\ calls' = [calls EXCEPT ![i] =
                                  [c EXCEPT !.step = "written", !.at = now,
                                            !.wrote = TRUE]]
             [] c.phase = "clear" ->
                  /\ storage' = [storage EXCEPT !.cache = cacheWithout(c.cache, {c.key})]
                  /\ calls' = [calls EXCEPT ![i] =
                                  [c EXCEPT !.step = "written", !.at = now,
                                            !.wrote = TRUE]]
             [] c.phase = "cleanup" ->
                  IF expired # {}
                    THEN /\ storage' = [storage EXCEPT !.cache =
                                           cacheWithout(c.cache, expired)]
                         /\ calls' = [calls EXCEPT ![i] =
                                         [c EXCEPT !.step = "written", !.at = now,
                                                   !.wrote = TRUE]]
                    ELSE /\ calls' = [calls EXCEPT ![i] =
                                         [c EXCEPT !.step = "done", !.cache = <<>>, !.at = now,
                                                   !.result = 0]]
                         /\ UNCHANGED storage
    /\ UNCHANGED <<analysis, threat, gmail, now>>
    /\ UNCHANGED runVars

\* the callback of chrome.storage.local.set runs for call i: set, clear or cleanup
\* resolves, and a handler that awaited set returns its response
Completes(i) ==
    /\ firstAt(i, "written")
    /\ calls' = [calls EXCEPT ![i] =
                    IF calls[i].op = "handle"
                      THEN [@ EXCEPT !.step = "done", !.cache = <<>>,
                                     !.result = [success |-> TRUE, data |-> calls[i].data,
                                                 cached |-> FALSE,
                                                 stored |->
                                                   IF calls[i].key \in DOMAIN storage.cache
                                                     THEN storage.cache[calls[i].key].data
                                                     ELSE Null]]
                      ELSE [@ EXCEPT !.step = "done", !.cache = <<>>]]
    /\ UNCHANGED <<analysis, threat, gmail, storage, now>>
    /\ UNCHANGED runVars

\* the request of APIClient for handler i settles: with a result the handler calls
\* cacheManager.set, with an error it returns the failure response
ApiResponds(i) ==
    /\ i \in 1..Len(calls)
    /\ calls[i].step = "api"
    /\ \E ok \in BOOLEAN :
          calls' = [calls EXCEPT ![i] =
                       IF ok
                         THEN [@ EXCEPT !.phase = "set", !.step = "read",
                                        !.seq = requestsIssued + 1,
                                        !.data = <<"r1", "r2", "r3", "r4">>[i]]
                         ELSE [@ EXCEPT !.step = "done", !.cache = <<>>,
                                        !.result = [success |-> FALSE,
                                                    error |-> "HTTP 500: Internal Server Error"]]]
    /\ UNCHANGED <<analysis, threat, gmail, storage, now>>
    /\ UNCHANGED runVars

\* time passes, up to the instant an entry expires or to the millisecond after it
Advance ==
    /\ \E k \in DOMAIN storage.cache, late \in 0..1 :
          /\ storage.cache[k].expiresAt # NaN
          /\ storage.cache[k].expiresAt + late > now
          /\ now' = storage.cache[k].expiresAt + late
    /\ UNCHANGED <<analysis, threat, gmail, storage, calls>>
    /\ UNCHANGED runVars

CacheNext ==
    \/ \E op \in {"get", "set", "clear"} :
          CacheManagerCall(op, "url", "https://bit.ly/3xYz")
    \/ \E op \in {"get", "set"} : CacheManagerCall(op, "constructor", "x")
    \/ CacheManagerCall("cleanup", Null, Null)
    \/ HandleMessage([type |-> "ANALYZE_URL", data |-> "https://bit.ly/3xYz"])
    \/ HandleMessage([type |-> "CHECK_DOMAIN", data |-> "paypa1-security.info"])
    \/ HandleMessage([type |-> "ANALYZE_EMAIL",
                      data |-> [sender |-> "Service@PayPal.com", subject |-> "Lunch"]])
    \/ \E i \in 1..MaxCalls : StorageReads(i)
    \/ \E i \in 1..MaxCalls : Callback(i)
    \/ \E i \in 1..MaxCalls : Completes(i)
    \/ \E i \in 1..MaxCalls : ApiResponds(i)
    \/ Advance

CacheSpec == CacheInit /\ [][CacheNext]_vars

----------------------------------------------------------------------------
(* Claims about calculateThreatScore *)

\* C1: the score is an integer in 0..100 and the level is the band holding it
C1_ScoreInRangeLevelMatchesBand ==
    Calculated =>
        /\ threat.score \in 0..100
        /\ (threat.level = "SAFE") <=> (threat.score <= 30)
        /\ (threat.level = "SUSPICIOUS") <=> (threat.score >= 31 /\ threat.score <= 60)
        /\ (threat.level = "DANGEROUS") <=> (threat.score >= 61)

\* C1 witness: a calculated score that the upper clamp cut down to 100
C1_Witness ==
    /\ Calculated
    /\ applyFloors(analysis, weightedTotal(analysis)) > 100
    /\ threat.score = 100
    /\ threat.level = "DANGEROUS"

C4_SetMax(S) == CHOOSE m \in S : \A x \in S : m >= x

C4_SenderScore ==
    (IF analysis.senderAnalysis.spf # "pass" THEN 40 ELSE 0)
  + (IF analysis.senderAnalysis.dmarc # "pass" THEN 40 ELSE 0)
  + (IF analysis.senderAnalysis.domainInfo.suspicious THEN 20 ELSE 0)

C4_HasDangerousUrl == analysis.urlAnalysis.dangerousCount >= 1

C4_CombinedScore ==
    (IF analysis.contentAnalysis.impersonation /\ C4_SenderScore > 30 THEN 50 ELSE 0)
  + (IF C4_HasDangerousUrl
       THEN 40 + (IF analysis.contentAnalysis.shortBodyWithLinks THEN 20 ELSE 0)
               + (IF analysis.metadata.isSpamFolder THEN 20 ELSE 0)
       ELSE 0)

\* round(0.2 s + 0.5 c + 0.4 u + 0.4 a + 0.2 k), in tenths
C4_Weighted ==
    ( 2 * C4_SenderScore
    + 5 * analysis.contentAnalysis.phishingScore
    + 4 * (IF C4_HasDangerousUrl THEN 80 ELSE 0)
    + 4 * (IF analysis.attachmentAnalysis.dangerousCount >= 1 THEN 90 ELSE 0)
    + 2 * C4_CombinedScore
    + 5 ) \div 10

C4_ApplicableFloors ==
       (IF analysis.contentAnalysis.socialEngineering = "High" THEN {45} ELSE {})
  \cup (IF analysis.contentAnalysis.socialEngineering = "Moderate" THEN {30} ELSE {})
  \cup (IF analysis.contentAnalysis.impersonation THEN {60} ELSE {})
  \cup (IF analysis.metadata.isSpamFolder THEN {40} ELSE {})
  \cup (IF C4_HasDangerousUrl
          /\ (analysis.contentAnalysis.shortBodyWithLinks \/ analysis.metadata.isSpamFolder)
         THEN {75} ELSE {})

C4_Clamp(x) == IF x > 100 THEN 100 ELSE IF x < 0 THEN 0 ELSE x

\* C4: the score is clamp[0,100] of the maximum of the rounded weighted sum and
\* every applicable floor, and no floor lowers the weighted sum
C4_ScoreIsClampedMaxOfWeightedAndFloors ==
    Calculated =>
        /\ threat.score = C4_Clamp(C4_SetMax({C4_Weighted} \cup C4_ApplicableFloors))
        /\ threat.score >= C4_Clamp(C4_Weighted)

\* C4 witness: the dangerous-URL floor lifts a lower weighted sum to 75, above the
\* other applicable floors
C4_Witness ==
    /\ Calculated
    /\ C4_Weighted < 75
    /\ C4_ApplicableFloors = {40, 45, 75}
    /\ threat.score = 75

\* C5: a recalculation after one signal moved in the riskier direction never
\* returns a lower score (every action of ScoreNext but Calculate is such a move)
C5_RaisingOneSignalNeverLowersScore ==
    [][Calculated => threat'.score >= threat.score]_vars

\* C5 witness: the spam-folder signal was raised (the initial email is not in the
\* spam folder) and the score went up to its floor of 40
C5_Witness ==
    /\ Calculated
    /\ analysis.metadata.isSpamFolder
    /\ C4_Weighted < 40
    /\ threat.score = 40

\* the seven reasons in their priority order, each with the condition it applies under
C7_Priority ==
    << [text |-> "Sender authentication failed",
        applies |-> C4_SenderScore > 20],
       [text |-> "Phishing patterns detected",
        applies |-> analysis.contentAnalysis.phishingScore > 30],
       [text |-> ToString(analysis.urlAnalysis.dangerousCount) \o " dangerous URL(s)",
        applies |-> analysis.urlAnalysis.dangerousCount > 0],
       [text |-> ToString(analysis.attachmentAnalysis.dangerousCount)
                    \o " dangerous attachment(s)",
        applies |-> analysis.attachmentAnalysis.dangerousCount > 0],
       [text |-> "Impersonation attempt detected",
        applies |-> analysis.contentAnalysis.impersonation],
       [text |-> "Short email body with embedded links",
        applies |-> analysis.contentAnalysis.shortBodyWithLinks],
       [text |-> "Email is in Spam folder",
        applies |-> analysis.metadata.isSpamFolder] >>

C7_IsApplicable(r) == r.applies

C7_Applicable == SelectSeq(C7_Priority, C7_IsApplicable)

\* C7: the reasons are the first five (or fewer) applicable reasons in priority order
C7_ReasonsAreFirstFiveInPriorityOrder ==
    Calculated =>
        /\ Len(threat.reasons) <= 5
        /\ Len(threat.reasons) = (IF Len(C7_Applicable) < 5 THEN Len(C7_Applicable) ELSE 5)
        /\ \A k \in 1..Len(threat.reasons) : threat.reasons[k] = C7_Applicable[k].text

\* C7 witness: all seven reasons apply and the two of lowest priority are dropped
C7_Witness ==
    /\ Calculated
    /\ Len(C7_Applicable) = 7
    /\ Len(threat.reasons) = 5
    /\ threat.reasons[5] = "Impersonation attempt detected"

\* the analysis holds benign content, no dangerous URL or attachment, and the email
\* is not in the spam folder
C20_Benign ==
    /\ analysis.contentAnalysis.phishingScore = 0
    /\ analysis.contentAnalysis.socialEngineering = "Low"
    /\ ~analysis.contentAnalysis.impersonation
    /\ ~analysis.contentAnalysis.shortBodyWithLinks
    /\ analysis.urlAnalysis.dangerousCount = 0
    /\ analysis.attachmentAnalysis.dangerousCount = 0
    /\ ~analysis.metadata.isSpamFolder

\* 40 for SPF other than pass, 40 for DMARC other than pass, 20 for a suspicious domain
C20_SenderScore ==
    40 * Cardinality({m \in {"spf", "dmarc"} : analysis.senderAnalysis[m] # "pass"})
  + (IF analysis.senderAnalysis.domainInfo.suspicious THEN 20 ELSE 0)

\* C20: for benign content without dangerous URL or attachment outside the spam
\* folder the score is round(0.2 * senderScore), at most 20, and the level is SAFE,
\* whatever the sender authentication gave; fail/fail with a non-suspicious domain
\* gives 16, pass/pass with a non-suspicious domain gives 0 and no reasons
C20_BenignScoreIsFifthOfSenderScore ==
    (Calculated /\ C20_Benign) =>
        /\ 10 * threat.score - 5 <= 2 * C20_SenderScore
        /\ 2 * C20_SenderScore < 10 * threat.score + 5
        /\ threat.score <= 20
        /\ threat.level = "SAFE"
        /\ (/\ analysis.senderAnalysis.spf = "fail"
            /\ analysis.senderAnalysis.dmarc = "fail"
            /\ ~analysis.senderAnalysis.domainInfo.suspicious)
              => (C20_SenderScore = 80 /\ threat.score = 16)
        /\ (/\ analysis.senderAnalysis.spf = "pass"
            /\ analysis.senderAnalysis.dmarc = "pass"
            /\ ~analysis.senderAnalysis.domainInfo.suspicious)
              => (threat.score = 0 /\ threat.reasons = <<>>)

\* C20 witness: SPF and DMARC failed, the domain is not suspicious, everything else is
\* benign: score 16, SAFE, with the one reason of the failed authentication
C20_Witness ==
    /\ Calculated
    /\ C20_Benign
    /\ analysis.senderAnalysis.spf = "fail"
    /\ analysis.senderAnalysis.dmarc = "fail"
    /\ ~analysis.senderAnalysis.domainInfo.suspicious
    /\ threat.score = 16
    /\ threat.level = "SAFE"
    /\ threat.reasons = <<"Sender authentication failed">>

----------------------------------------------------------------------------
(* Claims about analyzeEmail and analyzeUrls *)

\* C2: whenever an analyzer rejects, analyzeEmail resolves with the default verdict
\* (score 50, SUSPICIOUS, an 'exercise caution' recommendation, the error as the one
\* reason), the aggregator is not run, and the verdict holds no analyzer output,
\* also after the analyzers still running have finished
C2_RejectionGivesDefaultVerdict ==
    /\ pc = "returned" => verdict.threatLevel \in {"SAFE", "SUSPICIOUS", "DANGEROUS"}
    /\ contentAnalysis.status = "threw" =>
          /\ pc = "returned"
          /\ verdict.threatScore = 50
          /\ verdict.threatLevel = "SUSPICIOUS"
          /\ Contains(verdict.recommendation, "exercise caution")
          /\ verdict.reasons = <<"Analysis error: " \o contentAnalysis.message>>
          /\ DOMAIN verdict = {"threatScore", "threatLevel", "recommendation",
                               "reasons", "error"}
          /\ threat = NoThreat

\* C2 witness: analyzeContent rejected, the sender and URL analyzers finished after
\* that with a dangerous URL found, and the verdict is still the default one
C2_Witness ==
    /\ contentAnalysis.status = "threw"
    /\ senderAnalysis.status = "ok"
    /\ urlAnalysis.status = "ok"
    /\ urlAnalysis.value.dangerousCount > 0
    /\ verdict.threatScore = 50
    /\ verdict.reasons = <<"Analysis error: " \o NullIncludesError>>

\* a request analyzeEmail waits for can still be answered: the guard of SpfResponds,
\* DmarcResponds, MxResponds or ExpandResponds holds
C3_RequestOutstanding ==
    \/ senderStep = "spf" /\ net.spf = Unanswered
    \/ senderStep = "dmarc" /\ net.dmarc = Unanswered
    \/ senderStep = "mx" /\ net.mx = Unanswered
    \/ \E i \in 1..Len(urlRuns) :
          urlRuns[i].step = "expanding" /\ net.expand[urlRuns[i].url] = Unanswered

\* C3: an analysis that has started and not returned can always take a step, so a
\* request that is never answered does not leave analyzeEmail waiting for ever
C3_AnalysisNeverHangs ==
    pc = "awaiting" => C3_RequestOutstanding

\* C6: when an analyzed URL is dangerous and the email has a short body with links
\* or is in the spam folder, the verdict is at least 75 and DANGEROUS; in the
\* short-body case the content result has shortBodyWithLinks, phishingScore >= 40
\* and socialEngineering High
C6_DangerousUrlFloorsVerdict ==
    ( /\ pc = "returned"
      /\ urlAnalysis.status = "ok"
      /\ urlAnalysis.value.dangerousCount >= 1 ) =>
        /\ ( \/ emailFacts.metadata.isSpamFolder
             \/ ( /\ emailFacts.metadata.bodyLength < 80
                  /\ emailFacts.metadata.urlCount >= 1 ) ) =>
              /\ verdict.threatScore >= 75
              /\ verdict.threatLevel = "DANGEROUS"
        /\ ( /\ emailFacts.metadata.bodyLength < 80
             /\ emailFacts.metadata.urlCount >= 1 ) =>
              /\ contentAnalysis.status = "ok"
              /\ contentAnalysis.value.shortBodyWithLinks
              /\ contentAnalysis.value.phishingScore >= 40
              /\ contentAnalysis.value.socialEngineering = "High"

\* the result of one URL when it is analyzed on its own, with this network
C8_UrlResult(url) ==
    IF isShortUrl(url)
      THEN analyzeResolvedUrl(url, expandURL(url, net.expand[url]))
      ELSE analyzeResolvedUrl(url, url)

\* analyzeEmail run one analyzer after the other, one URL after the other
C8_SequentialVerdict ==
    LET first == firstUrls(emailFacts.urls)
        spf == checkSPF(resolve(net.spf))
        dmarc == checkDMARC(resolve(net.dmarc))
        sender == senderResult(emailFacts, spf, dmarc, getMXRecords(resolve(net.mx)))
        urls == IF Len(emailFacts.urls) = 0 THEN emptyUrlAnalysis
                ELSE urlAnalysisOf([i \in 1..Len(first) |-> C8_UrlResult(first[i])])
        content == analyzeContent(emailFacts)
        attachments == analyzeAttachments(emailFacts.attachments)
    IN  IF content.status = "threw" THEN errorVerdict(content.message)
        ELSE LET a == analysisOf(sender, urls, content.value, attachments,
                                 emailFacts.metadata)
             IN  successVerdict(calculateThreatScore(a), a, emailFacts.metadata)

\* C8: the verdict analyzeEmail returns is a function of the email and the network
\* answers alone: in whatever order the lookups and expansions settle, it is the
\* verdict of the sequential run, in every field
C8_VerdictIndependentOfCompletionOrder ==
    pc = "returned" => verdict = C8_SequentialVerdict

\* C8 witness: a verdict calculated after three DNS lookups and two URL expansions,
\* which settle in any of their interleavings
C8_Witness ==
    /\ pc = "returned"
    /\ threat # NoThreat
    /\ senderStep = "done"
    /\ Len(urlRuns) = 3
    /\ isShortUrl(urlRuns[1].url)
    /\ urlRuns[1].result.redirects # Null
    /\ urlRuns[3].result.redirects # Null
    /\ verdict.urlAnalysis.dangerousCount = 2

\* C9: for a sender with a domain, every brand of the list that the text mentions
\* and the domain does not contain gives impersonation = true with at least the 30
\* points of it and a verdict of at least 60; when the domain contains every
\* mentioned brand, impersonation = false
C9_ImpersonationForEveryMentionedBrand ==
    LET text == toLowerCase(emailFacts.subject \o " " \o emailFacts.body)
        senderDomain == extractDomain(emailFacts.sender)
        mentioned == {Brands[k] : k \in {j \in 1..Len(Brands) : Contains(text, Brands[j])}}
        foreign == {b \in mentioned : ~Contains(senderDomain, b)}
    IN  (pc = "returned" /\ senderDomain # Null) =>
          /\ foreign # {} =>
                /\ contentAnalysis.value.impersonation
                /\ contentAnalysis.value.phishingScore >= 30
                /\ verdict.threatScore >= 60
          /\ (mentioned # {} /\ foreign = {}) => ~contentAnalysis.value.impersonation

\* new URL(finalUrl) throws for this URL of the list
C10_Fails(url) ==
    LET expanded == IF isShortUrl(url) THEN expandURL(url, net.expand[url]) ELSE url
    IN  ~parseUrl(finalUrlOf(url, expanded)).ok

\* C10: analyzeUrls returns one result per URL among the first ten, in list order; a
\* URL that cannot be analyzed has riskScore 0, dangerous = false and the one flag
\* 'Unable to analyze'; every other URL has the result it has when analyzed alone
C10_FailingUrlDoesNotAbortBatch ==
    urlAnalysis.status = "ok" =>
        LET first == firstUrls(emailFacts.urls)
            results == urlAnalysis.value.urls
        IN  /\ Len(results) = (IF Len(emailFacts.urls) < 10 THEN Len(emailFacts.urls) ELSE 10)
            /\ \A i \in 1..Len(results) :
                  /\ results[i].url = emailFacts.urls[i]
                  /\ C10_Fails(first[i]) =>
                        /\ results[i].riskScore = 0
                        /\ results[i].dangerous = FALSE
                        /\ results[i].flags = <<"Unable to analyze">>
                  /\ ~C10_Fails(first[i]) => results[i] = C8_UrlResult(first[i])
            /\ urlAnalysis.value.dangerousCount =
                  Cardinality({i \in 1..Len(results) : results[i].dangerous})

\* C10 witness: a batch whose second URL is malformed, whose first URL expanded to a
\* dangerous address and whose third URL was analyzed as well
C10_Witness ==
    /\ urlAnalysis.status = "ok"
    /\ Len(urlAnalysis.value.urls) = 3
    /\ urlAnalysis.value.urls[2] = unableToAnalyze(MalformedUrl)
    /\ urlAnalysis.value.urls[1].dangerous
    /\ urlAnalysis.value.urls[3].riskScore > 0

----------------------------------------------------------------------------
(* Claims about the URL analyzer *)

\* the number of the given conditions that hold
C11_Count(conditions) == Cardinality({k \in 1..Len(conditions) : conditions[k]})

\* the accumulation rule on one result r of a URL that could be analyzed
C11_ResultFollowsRule(r) ==
    LET u == parseUrl(r.resolvedUrl)
        homoglyph == Contains(u.hostname, NonAsciiChar)
        structural == Len(checkUrlStructure(r.resolvedUrl).reasons) > 0
        pattern == ~checkURL(r.resolvedUrl).safe
        reputation == checkDomain(u.hostname).suspicious
    IN  /\ r.riskScore = 40 * (IF homoglyph THEN 1 ELSE 0)
                       + 30 * (IF structural THEN 1 ELSE 0)
                       + 50 * (IF pattern THEN 1 ELSE 0)
                       + 20 * (IF reputation THEN 1 ELSE 0)
        /\ r.dangerous <=> r.riskScore >= 50
        /\ r.dangerous <=> (pattern \/ C11_Count(<<homoglyph, structural, reputation>>) >= 2)

\* C11: every analyzed URL has riskScore 40/30/50/20 per check that fires and is
\* dangerous exactly from 50 on, that is when the pattern matches or two of the other
\* checks fire; dangerousCount counts the dangerous results and is the length of
\* dangerousUrls
C11_UrlRiskIsSumOfChecks ==
    /\ \A i \in 1..Len(urlRuns) :
          (urlRuns[i].step = "done" /\ urlRuns[i].result.flags # <<"Unable to analyze">>)
             => C11_ResultFollowsRule(urlRuns[i].result)
    /\ urlAnalysis.status = "ok" =>
          /\ urlAnalysis.value.dangerousCount =
                Cardinality({i \in 1..Len(urlAnalysis.value.urls) :
                                urlAnalysis.value.urls[i].dangerous})
          /\ urlAnalysis.value.dangerousCount = Len(urlAnalysis.value.dangerousUrls)

\* C11 witness: a URL with exactly 50 points from its structure and its domain
\* reputation, no pattern match, reported dangerous, next to one that is not
C11_Witness ==
    /\ urlAnalysis.status = "ok"
    /\ \E i \in 1..Len(urlAnalysis.value.urls) :
          /\ urlAnalysis.value.urls[i].riskScore = 50
          /\ urlAnalysis.value.urls[i].dangerous
          /\ checkURL(urlAnalysis.value.urls[i].resolvedUrl).safe
    /\ \E i \in 1..Len(urlAnalysis.value.urls) : ~urlAnalysis.value.urls[i].dangerous
    /\ urlAnalysis.value.dangerousCount >= 1

\* C12: every score the analyzer returns lies in 0..100: threatScore, the phishingScore
\* of the content analysis and the riskScore of every entry of urlAnalysis.urls, also
\* for URLs on which several checks fire at once
C12_ReturnedScoresWithin0To100 ==
    pc = "returned" =>
       /\ verdict.threatScore \in 0..100
       /\ "contentAnalysis" \in DOMAIN verdict =>
             verdict.contentAnalysis.phishingScore \in 0..100
       /\ "urlAnalysis" \in DOMAIN verdict =>
             \A i \in 1..Len(verdict.urlAnalysis.urls) :
                verdict.urlAnalysis.urls[i].riskScore \in 0..100

\* C12 witness: a returned verdict with a URL whose text has a non-ASCII host letter and
\* on which the structure, pattern and domain checks all fire
C12_Witness ==
    /\ pc = "returned"
    /\ "urlAnalysis" \in DOMAIN verdict
    /\ \E i \in 1..Len(verdict.urlAnalysis.urls) :
          LET r == verdict.urlAnalysis.urls[i]
          IN  /\ Contains(r.url, NonAsciiChar)
              /\ r.riskScore = 100
              /\ Len(r.flags) >= 3
    /\ verdict.contentAnalysis.phishingScore > 0

\* the verdict of analyzeEmail on the given email with the network answers of this run
C13_VerdictOf(email) ==
    LET first == firstUrls(email.urls)
        sender == senderResult(email, checkSPF(resolve(net.spf)), checkDMARC(resolve(net.dmarc)),
                               getMXRecords(resolve(net.mx)))
        urls == IF Len(email.urls) = 0 THEN emptyUrlAnalysis
                ELSE urlAnalysisOf([i \in 1..Len(first) |->
                        IF isShortUrl(first[i])
                          THEN analyzeResolvedUrl(first[i], expandURL(first[i], net.expand[first[i]]))
                          ELSE analyzeResolvedUrl(first[i], first[i])])
        content == analyzeContent(email)
    IN  IF content.status = "threw" THEN errorVerdict(content.message)
        ELSE LET a == analysisOf(sender, urls, content.value,
                                 analyzeAttachments(email.attachments), email.metadata)
             IN  successVerdict(calculateThreatScore(a), a, email.metadata)

\* the email as the parser would give it had the message ended after its tenth URL
C13_CutAfterTenth ==
    LET kept == SubSeq(emailFacts.urls, 1, Min(Len(emailFacts.urls), 10))
    IN  [emailFacts EXCEPT !.urls = kept,
                           !.metadata = [@ EXCEPT !.urlCount = Len(kept),
                                                  !.hasEmbeddedLinks = Len(kept) > 0]]

\* C13: analyzeUrls analyzes exactly the first min(n, 10) URLs, in input order; the
\* URLs after the tenth are not analyzed and change neither urls, dangerousUrls,
\* dangerousCount nor the score, level, recommendation and reasons of the verdict
C13_OnlyFirstTenUrlsCount ==
    /\ pc # "idle" =>
          /\ Len(urlRuns) = Min(Len(emailFacts.urls), 10)
          /\ \A i \in 1..Len(urlRuns) : urlRuns[i].url = emailFacts.urls[i]
    /\ (pc = "returned" /\ "urlAnalysis" \in DOMAIN verdict) =>
          /\ Len(verdict.urlAnalysis.urls) = Min(Len(emailFacts.urls), 10)
          /\ \A i \in 1..Len(verdict.urlAnalysis.urls) :
                verdict.urlAnalysis.urls[i].url = emailFacts.urls[i]
    /\ pc = "returned" =>
          LET cut == C13_VerdictOf(C13_CutAfterTenth)
          IN  /\ verdict.threatScore = cut.threatScore
              /\ verdict.threatLevel = cut.threatLevel
              /\ verdict.recommendation = cut.recommendation
              /\ verdict.reasons = cut.reasons
              /\ "urlAnalysis" \in DOMAIN verdict => verdict.urlAnalysis = cut.urlAnalysis

\* C13 witness: a verdict for a message of more than ten URLs whose eleventh URL is
\* dangerous when analyzed, and none of the first ten is
C13_Witness ==
    /\ pc = "returned"
    /\ Len(emailFacts.urls) > 10
    /\ analyzeResolvedUrl(emailFacts.urls[11], emailFacts.urls[11]).dangerous
    /\ "urlAnalysis" \in DOMAIN verdict
    /\ Len(verdict.urlAnalysis.urls) = 10
    /\ verdict.urlAnalysis.dangerousCount = 0

----------------------------------------------------------------------------
(* Claims about the sender analysis *)

\* the lookup failed, or its answer holds no record with the tag
C14_Broken(response, tag) ==
    \/ response.kind # "ok"
    \/ \A k \in 1..Len(response.answer) : ~Contains(response.answer[k].data, tag)

\* C14: a lookup that fails (rejected fetch, HTTP error status, unusable body) or that
\* finds no matching record makes checkSPF and checkDMARC return 'fail' and
\* getMXRecords return the empty list; the sender score then holds the 40 points of
\* that mechanism, and the threat score is not below the one of any other outcome of
\* that lookup
C14_LookupsFailClosed ==
    pc = "sender" =>
       /\ C14_Broken(net.spf, "v=spf1") =>
             /\ senderAnalysis.value.spf = "fail"
             /\ senderScoreOf(analysis) =
                   40 + senderScoreOf([analysis EXCEPT !.senderAnalysis.spf = "pass"])
             /\ \A other \in LookupOutcomes.spf :
                   threat.score >= senderAndScore(emailFacts, other, net.dmarc, net.mx).threat.score
       /\ C14_Broken(net.dmarc, "v=DMARC1") =>
             /\ senderAnalysis.value.dmarc = "fail"
             /\ senderScoreOf(analysis) =
                   40 + senderScoreOf([analysis EXCEPT !.senderAnalysis.dmarc = "pass"])
             /\ \A other \in LookupOutcomes.dmarc :
                   threat.score >= senderAndScore(emailFacts, net.spf, other, net.mx).threat.score
       /\ (net.mx.kind # "ok" \/ net.mx.answer = <<>>) =>
             /\ senderAnalysis.value.mxRecords = <<>>
             /\ \A other \in LookupOutcomes.mx :
                   threat.score >= senderAndScore(emailFacts, net.spf, net.dmarc, other).threat.score

\* C14 witness: the SPF lookup got an HTTP error, the DMARC lookup an answer without a
\* DMARC record, the MX lookup a body that is not JSON; the sender score is 80 or more
C14_Witness ==
    /\ pc = "sender"
    /\ net.spf.kind = "httpError"
    /\ net.dmarc.kind = "ok" /\ C14_Broken(net.dmarc, "v=DMARC1")
    /\ net.mx.kind = "invalidJson"
    /\ senderAnalysis.value.spf = "fail"
    /\ senderAnalysis.value.dmarc = "fail"
    /\ senderScoreOf(analysis) >= 80
    /\ threat.score > senderAndScore(emailFacts,
                         [kind |-> "ok", answer |-> <<[data |-> "v=spf1 -all", priority |-> 0]>>],
                         net.dmarc, net.mx).threat.score

\* C15: the SPF, DMARC and MX lookups of the sender analysis are issued together:
\* while the response of the SPF lookup is outstanding the DMARC and the MX request
\* have been sent too and can be answered, so neither waits for the SPF lookup
C15_LookupsIssuedConcurrently ==
    (pc = "awaiting" /\ senderStep = "spf" /\ net.spf = Unanswered) =>
       /\ ENABLED DmarcResponds
       /\ ENABLED MxResponds

----------------------------------------------------------------------------
(* Claims about the attachment analysis *)

\* the score the rule gives an attachment of the given name and extension
C16_RuleScore(name, ext) ==
    LET base == IF ext \in DangerousExts THEN 90
                ELSE IF ext \in SuspiciousExts THEN 30 ELSE 0
        macro == IF ext \in MacroExts /\ base < 80 THEN 80 ELSE base
    IN  IF CountChar(name, ".") >= 2 THEN macro + 40 ELSE macro

\* C16: an extension of the dangerous set gives dangerous and 90, otherwise one of the
\* suspicious set gives 30; a macro extension forces dangerous and at least 80; two or
\* more dots in the name force dangerous and add 40; dangerousCount is the number of
\* dangerous attachments, and one or more of them give attachmentScore 90, which is 36
\* in the weighted sum
C16_AttachmentScoring ==
    pc = "attachments" =>
       LET given == emailFacts.attachments
           results == attachmentAnalysis.value.attachments
       IN  /\ Len(results) = Len(given)
           /\ \A k \in 1..Len(given) :
                 LET ext == toLowerCase(given[k].extension)
                 IN  /\ results[k].riskScore = C16_RuleScore(given[k].name, ext)
                     /\ results[k].dangerous <=>
                           \/ ext \in DangerousExts
                           \/ ext \in MacroExts
                           \/ CountChar(given[k].name, ".") >= 2
           /\ attachmentAnalysis.value.dangerousCount =
                 Cardinality({k \in 1..Len(results) : results[k].dangerous})
           /\ attachmentScoreOf(analysis) =
                 IF attachmentAnalysis.value.dangerousCount >= 1 THEN 90 ELSE 0
           /\ threat.score = IF attachmentAnalysis.value.dangerousCount >= 1 THEN 36 ELSE 0

\* C16 witness: invoice.pdf.exe scored 130 and dangerous next to a second attachment
\* that is not dangerous; the weighted sum is 36
C16_Witness ==
    /\ pc = "attachments"
    /\ Len(attachmentAnalysis.value.attachments) = 2
    /\ attachmentAnalysis.value.attachments[1].name = "invoice.pdf.exe"
    /\ attachmentAnalysis.value.attachments[1].riskScore = 130
    /\ attachmentAnalysis.value.attachments[1].dangerous
    /\ ~attachmentAnalysis.value.attachments[2].dangerous
    /\ attachmentAnalysis.value.attachments[2].riskScore = 30
    /\ attachmentAnalysis.value.dangerousCount = 1
    /\ threat.score = 36

----------------------------------------------------------------------------
(* Claims about the content analysis *)

\* the points that come with a flag of analyzeContent
C17_PointsOf(flag) ==
    IF \E k \in 1..Len(ContentPatterns) : ContentPatterns[k].flag = flag
      THEN ContentPatterns[CHOOSE k \in 1..Len(ContentPatterns) :
                              ContentPatterns[k].flag = flag].weight
    ELSE IF StartsWith(flag, "Impersonation: ") THEN 30
    ELSE IF flag = "Many embedded links (suspicious)" THEN 10
    ELSE IF flag = "Very short body with links (suspicious)" THEN 15
    ELSE 5

RECURSIVE C17_Running(_)
\* the running score: the points of all flags raised
C17_Running(flags) ==
    IF Len(flags) = 0 THEN 0 ELSE C17_PointsOf(Head(flags)) + C17_Running(Tail(flags))

\* C17: phishingScore lies in 0..100; socialEngineering is High exactly from 40 on,
\* Moderate exactly from 20 to 39, Low otherwise; with shortBodyWithLinks the running
\* score is raised to at least 40, to exactly 40 when it was below, so that
\* shortBodyWithLinks implies High
C17_PhishingScoreAndTier ==
    (pc = "content" /\ contentAnalysis.status = "ok") =>
       LET r == contentAnalysis.value
           running == C17_Running(r.flags)
       IN  /\ r.phishingScore \in 0..100
           /\ r.socialEngineering = "High" <=> r.phishingScore >= 40
           /\ r.socialEngineering = "Moderate" <=> (r.phishingScore >= 20 /\ r.phishingScore < 40)
           /\ r.socialEngineering = "Low" <=> r.phishingScore < 20
           /\ r.shortBodyWithLinks =>
                 /\ r.phishingScore >= 40
                 /\ running < 40 => r.phishingScore = 40
                 /\ r.socialEngineering = "High"
           /\ ~r.shortBodyWithLinks => r.phishingScore = Min(100, running)
           /\ r.shortBodyWithLinks => r.phishingScore = Min(100, Max(40, running))

\* C17 witness: a short body with one link and a running score of 15 gives exactly 40
\* and High
C17_Witness ==
    /\ pc = "content"
    /\ contentAnalysis.status = "ok"
    /\ contentAnalysis.value.shortBodyWithLinks
    /\ C17_Running(contentAnalysis.value.flags) = 15
    /\ contentAnalysis.value.phishingScore = 40
    /\ contentAnalysis.value.socialEngineering = "High"

\* a second case of C17: more than 100 points of keywords are reported as 100
C17_Clamped ==
    /\ pc = "content"
    /\ contentAnalysis.status = "ok"
    /\ C17_Running(contentAnalysis.value.flags) > 100
    /\ contentAnalysis.value.phishingScore = 100

\* the result of analyzeContent holds the flag
C18_Flagged(flag) ==
    \E k \in 1..Len(contentAnalysis.value.flags) : contentAnalysis.value.flags[k] = flag

\* the Metadata value holds the count and it is above n
C18_Above(field, n) ==
    field \in DOMAIN emailFacts.metadata /\ emailFacts.metadata[field] > n

\* C18: each metadata-derived addition is made for every Metadata value whose counts
\* satisfy its condition, whatever its other fields are and whether they are present:
\* 5 points for more than 3 attachments, 10 for more than 5 URLs, 15 and
\* shortBodyWithLinks for a body under 80 characters with a URL, 5 for more than 10
\* recipients of an email that is neither a reply nor a forward, 5 for more than 5 images
C18_MetadataAdditionsDependOnCountsOnly ==
    (pc = "content" /\ contentAnalysis.status = "ok") =>
       LET m == emailFacts.metadata
           shortWithUrl == /\ "bodyLength" \in DOMAIN m
                           /\ m.bodyLength < 80
                           /\ C18_Above("urlCount", 0)
           manyRecipients == /\ "isReply" \in DOMAIN m /\ ~m.isReply
                             /\ "isForward" \in DOMAIN m /\ ~m.isForward
                             /\ C18_Above("recipientCount", 10)
       IN  /\ C18_Above("attachmentCount", 3) <=> C18_Flagged("Multiple attachments (unusual)")
           /\ C18_Above("urlCount", 5) <=> C18_Flagged("Many embedded links (suspicious)")
           /\ shortWithUrl <=> C18_Flagged("Very short body with links (suspicious)")
           /\ shortWithUrl <=> contentAnalysis.value.shortBodyWithLinks
           /\ manyRecipients <=> C18_Flagged("Sent to many recipients")
           /\ C18_Above("hasImages", 5) <=> C18_Flagged("Many images in email")

\* the additions as made for the Metadata values that hold every field, as the parser
\* derives them
C18_AdditionsForParserMetadata ==
    (/\ pc = "content" /\ contentAnalysis.status = "ok"
     /\ "hasAttachments" \in DOMAIN emailFacts.metadata)
       => C18_MetadataAdditionsDependOnCountsOnly

----------------------------------------------------------------------------
(* Claims about the threat levels *)

\* the levels of THREAT_LEVELS whose range holds the score
C19_Holding(score) ==
    {k \in 1..Len(THREAT_LEVELS) :
        THREAT_LEVELS[k].range[1] <= score /\ score <= THREAT_LEVELS[k].range[2]}

\* C19: the label Helpers.getThreatLevel gives a score is the level calculateThreatScore
\* computed and analyzeEmail returned with it, also for the fallback score 50; the
\* ranges of THREAT_LEVELS, 0-30, 31-60 and 61-100, hold every score of 0..100 exactly once
C19_ShownLevelIsReturnedLevel ==
    /\ pc = "shown" =>
          /\ verdict.threatScore \in 0..100
          /\ verdict.shownLevel = verdict.threatLevel
          /\ getThreatLevel(threat.score).label = threat.level
    /\ \A score \in 0..100 :
          /\ Cardinality(C19_Holding(score)) = 1
          /\ getThreatLevel(score).label = levelOf(score)

\* C19 witness: a score on the edge of a band, 31, shown as SUSPICIOUS
C19_Witness ==
    /\ pc = "shown"
    /\ verdict.threatScore = 31
    /\ verdict.threatLevel = "SUSPICIOUS"
    /\ verdict.shownLevel = "SUSPICIOUS"
    /\ threat.score = 31

\* a second case of C19: the fallback verdict, score 50, shown as SUSPICIOUS
C19_Fallback ==
    /\ pc = "shown"
    /\ verdict.threatScore = 50
    /\ threat.score # 50
    /\ verdict.shownLevel = "SUSPICIOUS"

\* ------------------------------------------------------------------------
\* Claims about missing sender domains
\* ------------------------------------------------------------------------

\* C21: an email whose sender address has no '@domain' part (extractDomain gives
\* null) is analysed to the end: the verdict analyzeEmail returns is the one
\* calculateThreatScore computed from the four analyzer results, never the fallback
\* verdict of the catch branch, also when the subject or body mentions a brand
C21_MissingDomainStillGivesComputedVerdict ==
    ( /\ pc = "returned"
      /\ extractDomain(emailFacts.sender) = Null ) =>
        /\ "error" \notin DOMAIN verdict
        /\ contentAnalysis.status = "ok"
        /\ verdict.threatScore = threat.score

\* ------------------------------------------------------------------------
\* Claims about dangerous findings
\* ------------------------------------------------------------------------

\* C25: an analysis with at least one dangerous URL or at least one dangerous
\* attachment is never scored into the SAFE band: calculateThreatScore gives it a
\* score of 31 or more, whatever the sender, content and metadata signals are
C25_DangerousFindingNeverSafe ==
    ( /\ Calculated
      /\ \/ analysis.urlAnalysis.dangerousCount >= 1
         \/ analysis.attachmentAnalysis.dangerousCount >= 1 ) =>
        /\ threat.score >= 31
        /\ threat.level # "SAFE"

\* C25 witness: a dangerous attachment on an otherwise clean, authenticated email
\* scores 0.4 * 90 = 36, SUSPICIOUS
C25_Witness ==
    /\ Calculated
    /\ analysis = MakeAnalysis([LowestRisk EXCEPT !.dangerousAttachments = 1])
    /\ threat.score = 36
    /\ threat.level = "SUSPICIOUS"

\* a second case of C25: a dangerous URL alone scores 0.4 * 80 + 0.2 * 40 = 40
C25_UrlOnly ==
    /\ Calculated
    /\ analysis = MakeAnalysis([LowestRisk EXCEPT !.dangerousUrls = 1])
    /\ threat.score = 40

\* ------------------------------------------------------------------------
\* Claims about the network requests of an analysis
\* ------------------------------------------------------------------------

\* the URL DNSService.resolve fetches; a template literal prints null as "null"
dnsQueryUrl(domain, type) ==
    "https://cloudflare-dns.com/dns-query?name="
        \o (IF domain = Null THEN "null" ELSE domain) \o "&type=" \o type

\* the fetch calls analyzeEmail(email) has made once analyzeSender is at step: the TXT
\* lookup of checkSPF, then the one of checkDMARC, then the MX lookup, and from the
\* start the HEAD request of expandURL for every shortened URL among the first ten
requestsSent(email, step) ==
    (IF step \in {"spf", "dmarc", "mx", "done"}
       THEN {[method |-> "GET",
              url |-> dnsQueryUrl(extractDomain(email.sender), "TXT")]}
       ELSE {})
    \cup (IF step \in {"dmarc", "mx", "done"}
            THEN {[method |-> "GET",
                   url |-> dnsQueryUrl("_dmarc." \o (IF extractDomain(email.sender) = Null
                                                       THEN "null"
                                                       ELSE extractDomain(email.sender)),
                                       "TXT")]}
            ELSE {})
    \cup (IF step \in {"mx", "done"}
            THEN {[method |-> "GET",
                   url |-> dnsQueryUrl(extractDomain(email.sender), "MX")]}
            ELSE {})
    \cup (IF step # "idle"
            THEN {[method |-> "HEAD", url |-> u] : u \in shortUrlsOf(email.urls)}
            ELSE {})

\* C23: the analysis is local: the requests analyzeEmail has sent are the same for
\* every email, so none of them carries the sender domain or a URL of the email
C23_RequestsIndependentOfEmail ==
    /\ \A other \in EmailInputs :
          requestsSent(emailFacts, senderStep) = requestsSent(other, senderStep)
    /\ \A r \in requestsSent(emailFacts, senderStep) :
          /\ r.url \notin {emailFacts.urls[i] : i \in 1..Len(emailFacts.urls)}
          /\ extractDomain(emailFacts.sender) # Null =>
                ~Contains(r.url, extractDomain(emailFacts.sender))

\* ------------------------------------------------------------------------
\* Claims about the Gmail content script
\* ------------------------------------------------------------------------

\* the content script has nothing left to do for the open email: its body has
\* rendered, every scheduled check has run and no check or analysis is pending
C22_Settled ==
    /\ isEmailUrl(gmail.hash)
    /\ gmail.loaded
    /\ gmail.timers = 0
    /\ gmail.checks = <<>>
    /\ gmail.runs = <<>>

\* C22: with auto-analyze enabled every email the user opens is analysed and its
\* banner shown; on a finite run: once the content script has settled on the open
\* email, the banner of that email is displayed
C22_OpenedEmailIsAnalysed ==
    (storage.settings.autoAnalyze /\ C22_Settled) => gmail.banner = gmail.hash

\* C26: at most one analyzeEmail run is in progress at any time, and
\* analysisInProgress is true exactly while one is running
C26_AtMostOneAnalysisInProgress ==
    /\ Len(gmail.runs) <= 1
    /\ gmail.analysisInProgress <=> (gmail.runs # <<>>)

\* C27: a banner that is displayed belongs to the email that is open: the result
\* computed for one email is never shown on another email or outside the email view
C27_BannerBelongsToOpenEmail ==
    gmail.banner # Null => gmail.banner = gmail.hash

\* the entries logged after entry, newer than it
C30_NewerThan(entry) == {e \in gmail.logged : e.timestamp > entry.timestamp}

\* C30: the stored history holds at most 100 entries, newest first, and the entry of
\* every completed logToHistory call is in it until 100 newer entries displaced it
C30_HistoryBoundedOrderedComplete ==
    /\ Len(storage.history) <= HistoryLimit
    /\ \A i \in 1..(Len(storage.history) - 1) :
          storage.history[i].timestamp >= storage.history[i + 1].timestamp
    /\ \A entry \in gmail.logged :
          \/ \E i \in 1..Len(storage.history) : storage.history[i] = entry
          \/ Cardinality(C30_NewerThan(entry)) >= HistoryLimit

\* ------------------------------------------------------------------------
\* Claims about the cache and the message handler
\* ------------------------------------------------------------------------

\* the time to live the cache is said to give an entry of each type
C24_TTL(type) ==
    CASE type = "domain" -> 24 * 60 * 60 * 1000
      [] type = "ip"     -> 12 * 60 * 60 * 1000
      [] type = "url"    -> 6 * 60 * 60 * 1000
      [] type = "email"  -> 1 * 60 * 60 * 1000
      [] OTHER           -> 1 * 60 * 60 * 1000

\* call j writes or deletes the entry of key
C24_Touches(j, key) ==
    /\ calls[j].key = key
    /\ \/ calls[j].op \in {"set", "clear"}
       \/ calls[j].op = "handle" /\ calls[j].phase = "set"

\* C24: a get called after set(type, id, data) has returned, with no other set or
\* clear of that key, returns data at every time up to createdAt + TTL(type) and
\* null at every later time; every entry is stored under a key '<type>:<identifier>'
\* of a call
C24_EntryLivesForItsTtl ==
    /\ \A g \in 1..Len(calls), s \in 1..Len(calls) :
          ( /\ calls[g].op = "get" /\ calls[g].step = "done"
            /\ calls[s].op = "set" /\ s \in calls[g].before
            /\ calls[s].key = calls[g].key
            /\ \A j \in 1..Len(calls) : C24_Touches(j, calls[s].key) => j = s ) =>
              calls[g].result = IF calls[g].at <= calls[s].at + C24_TTL(calls[s].type)
                                  THEN calls[s].data
                                  ELSE Null
    /\ \A k \in DOMAIN storage.cache :
          \E s \in 1..Len(calls) : calls[s].key = k /\ calls[s].wrote

\* C28: when all calls have returned, the entry of every completed set that no
\* other call set or cleared, and that has not expired, is in the cache with the
\* data of that set
C28_NoCompletedWriteIsLost ==
    (\A i \in 1..Len(calls) : calls[i].step = "done") =>
        \A s \in 1..Len(calls) :
            ( /\ calls[s].wrote
              /\ calls[s].phase = "set"
              /\ \A j \in 1..Len(calls) : C24_Touches(j, calls[s].key) => j = s
              /\ ~isExpired(now, entryOf(calls[s].data, calls[s].type, calls[s].at)) ) =>
                /\ calls[s].key \in DOMAIN storage.cache
                /\ storage.cache[calls[s].key].data = calls[s].data

\* C29: a handler calls the API only when the cache it read holds no unexpired entry
\* for its key; when it answers {success: true, cached: false}, and no other call has
\* set or cleared that key, the API result is in the cache under that key; when it
\* answers {success: false} it has not written to the cache
C29_HandlerIsCacheFirst ==
    \A h \in 1..Len(calls) :
        calls[h].op = "handle" =>
            /\ calls[h].step = "api" =>
                  cacheGet(calls[h].cache, calls[h].key, calls[h].at) = Null
            /\ calls[h].step = "done" =>
                  /\ ( /\ calls[h].result.success
                       /\ ~calls[h].result.cached
                       /\ \A j \in 1..Len(calls) :
                             C24_Touches(j, calls[h].key) => j = h ) =>
                        calls[h].result.stored = calls[h].result.data
                  /\ ~calls[h].result.success => ~calls[h].wrote

====
